---- MODULE Spec2Model ----
(***************************************************************************)
(* A model of the YouTube channel fetcher: the Express routes of           *)
(* lib/api-videos.js (GET /api/videos and GET /api/videos/stream), the     *)
(* two entry points of lib/youtube-videos.js (fetchYoutubeVideos and       *)
(* streamYoutubeVideos) and the YouTubeChannelFetcher class they drive.    *)
(*                                                                         *)
(* Every request is a session.  A session runs as a chain of async         *)
(* continuations: one action per request handler and one per point where   *)
(* an awaited upstream call (or the inter-page timer) settles.  Each       *)
(* action runs the code from that point up to the next await.  The         *)
(* upstream Data API is the environment: each of its answers is drawn      *)
(* from a small set (failure, empty, items, with or without a cursor).     *)
(*                                                                         *)
(* JavaScript strings are sequences of one-character strings, so that      *)
(* startsWith, includes, split and length are computed, not assumed.       *)
(***************************************************************************)
EXTENDS Integers, Sequences, FiniteSets, TLC

\* ------------------------------------------------------------------ bounds

\* The upstream answers at most MaxPages search pages in one session.
MaxPages == 2
\* A search page carries at most MaxItems items.
MaxItems == 2

\* ------------------------------------------------------- program constants

\* input.length === 24 in getChannelId
CanonicalLen == 24
\* Math.min(maxResults, 50): the upstream's per-call cap
PageCap == 50
\* maxResults: 50 passed by both entry points
EntryMaxResults == 50
\* res.status(400) of the stream route
BadRequest == 400
\* res.writeHead(200, ...) / Express' default status of res.json
OkStatus == 200

\* ----------------------------------------------------------------- strings

STR_UC == <<"U", "C">>
STR_CHANNEL_URL == <<"y", "o", "u", "t", "u", "b", "e", ".", "c", "o", "m", "/", "c", "h", "a", "n", "n", "e", "l", "/">>
STR_C_URL == <<"y", "o", "u", "t", "u", "b", "e", ".", "c", "o", "m", "/", "c", "/">>
STR_AT_URL == <<"y", "o", "u", "t", "u", "b", "e", ".", "c", "o", "m", "/", "@">>
STR_SITE == <<"y", "o", "u", "t", "u", "b", "e", ".", "c", "o", "m", "/">>
STR_QMARK == <<"?">>
STR_SLASH == <<"/">>
STR_AT == <<"@">>

\* String.prototype.startsWith
StartsWith(str, prefix) ==
  /\ Len(str) >= Len(prefix)
  /\ SubSeq(str, 1, Len(prefix)) = prefix

\* String.prototype.indexOf, 1-based; 0 when sep does not occur
IndexOf(str, sep) ==
  LET hits == {i \in 1..(Len(str) - Len(sep) + 1) : SubSeq(str, i, i + Len(sep) - 1) = sep}
  IN IF hits = {} THEN 0 ELSE CHOOSE i \in hits : \A j \in hits : i <= j

\* String.prototype.includes
Includes(str, sep) == IndexOf(str, sep) # 0

\* str.split(sep)[0]: the text before the first sep, all of str without one
SplitFirst(str, sep) ==
  IF Includes(str, sep) THEN SubSeq(str, 1, IndexOf(str, sep) - 1) ELSE str

\* str.split(sep)[1] for a str that includes sep: the text between the first
\* sep and the next one (or the end)
SplitSecond(str, sep) ==
  SplitFirst(SubSeq(str, IndexOf(str, sep) + Len(sep), Len(str)), sep)

\* String.prototype.substring(1)
Substring1(str) == SubSeq(str, 2, Len(str))

\* ------------------------------------------------------------ request input

\* req.query.channel: a string, or undefined when the parameter is missing
Undefined == [defined |-> FALSE, str |-> <<>>]
StrInput(str) == [defined |-> TRUE, str |-> str]

\* Mutant of Falsy: the check channelInput === undefined
FalsyOnlyUndefined(input) == ~input.defined

\* JavaScript's !channelInput for a string or undefined
Falsy(input) == ~input.defined \/ input.str = <<>>

CANONICAL_ID == <<"U", "C", "B", "J", "y", "c", "s", "m", "d", "u", "v", "Y", "E", "L", "8", "3", "R", "_", "U", "4", "J", "r", "i", "Q">>
HANDLE_NAME == <<"m", "k", "b", "h", "d">>

\* The channel parameters a request of the main specification carries
ChannelInputs == {Undefined, StrInput(<<>>), StrInput(CANONICAL_ID), StrInput(HANDLE_NAME)}

\* The arguments of direct calls of getChannelId: ids, names and URLs of the
\* three forms the function tells apart, each with and without a query
\* string and a further path
URL_SCHEME == <<"h", "t", "t", "p", "s", ":", "/", "/", "w", "w", "w", ".">>
SHORT_UC_ID == <<"U", "C", "x", "y", "z">>
LONG_UC_ID == CANONICAL_ID \o <<"Z">>
UC_MARKER_ID == STR_UC \o STR_CHANNEL_URL \o <<"a", "b">>
QUERY_SUFFIX == <<"?", "s", "i", "=", "a", "b", "c">>
PATH_SUFFIX == <<"/", "v", "i", "d", "e", "o", "s">>
UrlMarkers == {STR_CHANNEL_URL, STR_C_URL, STR_AT_URL}
UrlIdentifiers == {CANONICAL_ID, SHORT_UC_ID, LONG_UC_ID, HANDLE_NAME}
UrlSuffixes == {<<>>, QUERY_SUFFIX, PATH_SUFFIX, PATH_SUFFIX \o QUERY_SUFFIX}
ResolverInputs ==
  {Undefined, StrInput(<<>>)}
  \cup {StrInput(str) : str \in UrlIdentifiers \cup {UC_MARKER_ID}}
  \cup {StrInput(URL_SCHEME \o marker \o ident \o suffix) :
          marker \in UrlMarkers, ident \in UrlIdentifiers, suffix \in UrlSuffixes}

\* ------------------------------------------------------------------ errors

\* A message: its fixed text and the values interpolated into it (strings)
Text(text, about) == [text |-> text, about |-> about]
\* Error objects carry a message
Err(text, about) == [message |-> Text(text, about)]
NoError == Err("", <<>>)
\* The messages a failing upstream call rejects with
UpstreamMessages == {"quotaExceeded", "ECONNRESET"}
UpstreamError(m) == Err(m, <<>>)
\* Reading a property of undefined
TypeError == Err("TypeError", <<>>)

\* ---------------------------------------------------------------- resolver

\* Mutant of IsChannelId: the length test as a lower bound
IsChannelIdLongerOnly(str) == StartsWith(str, STR_UC) /\ Len(str) > CanonicalLen

\* input.startsWith("UC") && input.length === 24
IsChannelId(str) == StartsWith(str, STR_UC) /\ Len(str) = CanonicalLen

\* Mutant of ChannelPathIdentifier: the query string is not cut off
ChannelPathIdentifierKeepsQuery(str) ==
  SplitFirst(SplitSecond(str, STR_CHANNEL_URL), STR_SLASH)

\* input.split("youtube.com/channel/")[1].split("?")[0].split("/")[0]
ChannelPathIdentifier(str) ==
  SplitFirst(SplitFirst(SplitSecond(str, STR_CHANNEL_URL), STR_QMARK), STR_SLASH)

\* input.split("youtube.com/")[1].split("?")[0].split("/")[0], without a
\* leading "@"
CustomUrlIdentifier(str) ==
  LET ident == SplitFirst(SplitFirst(SplitSecond(str, STR_SITE), STR_QMARK), STR_SLASH)
  IN IF StartsWith(ident, STR_AT) THEN Substring1(ident) ELSE ident

\* The part of getChannelId that runs before its upstream call: either the
\* id it returns at once, the query it sends upstream, or the TypeError that
\* input.startsWith raises when input is undefined.
ResolveLocal(input) ==
  IF ~input.defined
  THEN [kind |-> "throw", value |-> <<>>]
  ELSE LET str == input.str IN
    IF IsChannelId(str)
    THEN [kind |-> "return", value |-> str]
    ELSE IF Includes(str, STR_CHANNEL_URL)
    THEN LET ident == ChannelPathIdentifier(str)
         IN IF StartsWith(ident, STR_UC)
            THEN [kind |-> "return", value |-> ident]
            ELSE [kind |-> "search", value |-> ident]
    ELSE IF Includes(str, STR_C_URL) \/ Includes(str, STR_AT_URL)
    THEN [kind |-> "search", value |-> CustomUrlIdentifier(str)]
    ELSE [kind |-> "search", value |-> str]

\* ------------------------------------------------------------------ records

\* {...a, ...b}: the fields of both, b's value where both have the field
Spread(a, b) ==
  [k \in (DOMAIN a) \cup (DOMAIN b) |-> IF k \in DOMAIN b THEN b[k] ELSE a[k]]

\* A field's value as the upstream reports it for video (or channel) v
Field(name, v) == [field |-> name, of |-> v]

\* let nextPageToken = null, and a response without nextPageToken
NoToken == 0

\* The id of the i-th item of the p-th search page: the upstream lists
\* every video once
VideoIdAt(p, i) == (p - 1) * MaxItems + i

\* An item of a search.list response (type: "video")
SearchItem(v) ==
  [id |-> [videoId |-> v],
   snippet |-> [title |-> Field("title", v), publishedAt |-> Field("publishedAt", v)]]

\* The items of the p-th search page when it carries n items
PageItems(p, n) == [i \in 1..n |-> SearchItem(VideoIdAt(p, i))]

\* An item of a videos.list response; tags and thumbnails may be missing
DetailItem(v, hasTags, hasThumbnails) ==
  [id |-> v, hasTags |-> hasTags, hasThumbnails |-> hasThumbnails]

\* Mutant of DetailRecord: tags: video.snippet.tags, undefined for an
\* item without tags and so absent from the record written out
DetailRecordRawTags(item) ==
  LET untagged ==
        [id |-> [string |-> item.id],
         title |-> Field("title", item.id),
         description |-> Field("description", item.id),
         publishedAt |-> Field("publishedAt", item.id),
         thumbnail |-> Field("thumbnail", item.id),
         duration |-> Field("duration", item.id),
         viewCount |-> Field("viewCount", item.id),
         likeCount |-> Field("likeCount", item.id),
         commentCount |-> Field("commentCount", item.id)]
  IN IF item.hasTags
     THEN Spread(untagged, [tags |-> <<Field("tag", item.id)>>])
     ELSE untagged

\* What getVideoDetails makes of one item of the response
DetailRecord(item) ==
  [id |-> [string |-> item.id],
   title |-> Field("title", item.id),
   description |-> Field("description", item.id),
   publishedAt |-> Field("publishedAt", item.id),
   thumbnail |-> Field("thumbnail", item.id),
   duration |-> Field("duration", item.id),
   viewCount |-> Field("viewCount", item.id),
   likeCount |-> Field("likeCount", item.id),
   commentCount |-> Field("commentCount", item.id),
   tags |-> IF item.hasTags THEN <<Field("tag", item.id)>> ELSE <<>>]

\* getVideoDetails after its call settled: the mapped items, or the error
\* thrown (the upstream's, or the TypeError of reading
\* video.snippet.thumbnails.default of an item without thumbnails)
GetVideoDetails(answer) ==
  IF ~answer.ok
  THEN [ok |-> FALSE, error |-> UpstreamError(answer.message)]
  ELSE IF \E i \in 1..Len(answer.items) : ~answer.items[i].hasThumbnails
  THEN [ok |-> FALSE, error |-> TypeError]
  ELSE [ok |-> TRUE, value |-> [i \in 1..Len(answer.items) |-> DetailRecord(answer.items[i])]]

\* Mutant of VideoIds: the last video of the page is left out
VideoIdsButLast(videos) == [i \in 1..(Len(videos) - 1) |-> videos[i].id.videoId]

\* videos.map((video) => video.id.videoId).join(","): the ids, in order
VideoIds(videos) == [i \in 1..Len(videos) |-> videos[i].id.videoId]

\* videoDetails.find((detail) => detail.id === video.id.videoId): the index
\* of the first match, 0 for undefined
FindDetail(videoDetails, video) ==
  LET hits == {j \in 1..Len(videoDetails) : videoDetails[j].id.string = video.id.videoId}
  IN IF hits = {} THEN 0 ELSE CHOOSE j \in hits : \A k \in hits : j <= k

\* Mutant of MergeDetails: an inner join, which drops the videos without a
\* detail record
MergeDetailsMatchedOnly(videos, videoDetails) ==
  LET matched == SelectSeq(videos, LAMBDA video : FindDetail(videoDetails, video) # 0)
  IN [i \in 1..Len(matched) |->
        Spread(matched[i], videoDetails[FindDetail(videoDetails, matched[i])])]

\* Mutant of MergeDetails: the merged records come out last first
MergeDetailsReversed(videos, videoDetails) ==
  [i \in 1..Len(videos) |->
     LET video == videos[Len(videos) + 1 - i]
         j == FindDetail(videoDetails, video)
     IN IF j = 0 THEN video ELSE Spread(video, videoDetails[j])]

\* videos.map((video) => ({...video, ...details}))
MergeDetails(videos, videoDetails) ==
  [i \in 1..Len(videos) |->
     LET j == FindDetail(videoDetails, videos[i])
     IN IF j = 0 THEN videos[i] ELSE Spread(videos[i], videoDetails[j])]

\* Mutant of GetChannelInfo: an answer without items gives a record
GetChannelInfoOfNothing(channelId, answer) ==
  IF answer.kind = "fail"
  THEN [ok |-> FALSE, error |-> UpstreamError(answer.message)]
  ELSE IF answer.kind = "noThumbnails"
  THEN [ok |-> FALSE, error |-> TypeError]
  ELSE [ok |-> TRUE,
        value |-> [id |-> channelId,
                   title |-> Field("title", channelId),
                   description |-> Field("description", channelId),
                   thumbnail |-> Field("thumbnail", channelId),
                   subscriberCount |-> Field("subscriberCount", channelId),
                   videoCount |-> Field("videoCount", channelId),
                   viewCount |-> Field("viewCount", channelId)]]

\* getChannelInfo after its call settled
GetChannelInfo(channelId, answer) ==
  IF answer.kind = "fail"
  THEN [ok |-> FALSE, error |-> UpstreamError(answer.message)]
  ELSE IF answer.kind = "empty"
  THEN [ok |-> FALSE, error |-> Err("Channel not found", channelId)]
  ELSE IF answer.kind = "noThumbnails"
  THEN [ok |-> FALSE, error |-> TypeError]
  ELSE [ok |-> TRUE,
        value |-> [id |-> channelId,
                   title |-> Field("title", channelId),
                   description |-> Field("description", channelId),
                   thumbnail |-> Field("thumbnail", channelId),
                   subscriberCount |-> Field("subscriberCount", channelId),
                   videoCount |-> Field("videoCount", channelId),
                   viewCount |-> Field("viewCount", channelId)]]

\* getChannelId after its search call settled
GetChannelId(input, answer) ==
  IF answer.kind = "fail"
  THEN [ok |-> FALSE, error |-> UpstreamError(answer.message)]
  ELSE IF answer.kind = "empty"
  THEN [ok |-> FALSE, error |-> Err("Channel not found", input.str)]
  ELSE [ok |-> TRUE, value |-> answer.channelId]

\* ------------------------------------------------------------ the upstream

\* The answers of search.list (type: "channel", maxResults: 1)
ChannelSearchAnswers ==
  {[kind |-> "fail", message |-> m] : m \in UpstreamMessages}
  \cup {[kind |-> "empty"], [kind |-> "found", channelId |-> CANONICAL_ID]}

\* The answers of channels.list
ChannelsAnswers ==
  {[kind |-> "fail", message |-> m] : m \in UpstreamMessages}
  \cup {[kind |-> "empty"], [kind |-> "noThumbnails"], [kind |-> "found"]}

\* The answers of search.list (type: "video") for page p: a failure, or up
\* to MaxItems items with or without a cursor; the last page the upstream
\* serves carries none.  The cursor of page p is p.
SearchAnswers(p) ==
  {[ok |-> FALSE, message |-> m] : m \in UpstreamMessages}
  \cup {[ok |-> TRUE, items |-> PageItems(p, n), nextPageToken |-> t] :
          n \in 0..MaxItems, t \in IF p < MaxPages THEN {NoToken, p} ELSE {NoToken}}

\* All subsequences of the ids asked for, in the order asked
RECURSIVE SubSeqs(_)
SubSeqs(ids) ==
  IF ids = <<>> THEN {<<>>}
  ELSE LET rest == SubSeqs(Tail(ids))
       IN rest \cup {<<Head(ids)>> \o r : r \in rest}

\* Whether the upstream holds tags for video v: it does for every other
\* video
HasTags(v) == v % 2 = 1

\* The ids asked for, last first
Reverse(ids) == [i \in 1..Len(ids) |-> ids[Len(ids) + 1 - i]]

\* The answers of videos.list for the ids asked: a failure, or items for
\* any part of the ids in the order asked (the upstream may omit an id), or
\* items for all of them last first (the answer need not keep the order);
\* or items for all of them of which the first has no thumbnails; an item
\* has a tags field when the upstream holds tags for the video
DetailAnswers(ids) ==
  {[ok |-> FALSE, message |-> m] : m \in UpstreamMessages}
  \cup {[ok |-> TRUE, items |-> [i \in 1..Len(got) |-> DetailItem(got[i], HasTags(got[i]), TRUE)]] :
          got \in SubSeqs(ids) \cup {Reverse(ids)}}
  \cup {[ok |-> TRUE, items |-> [i \in 1..Len(ids) |-> DetailItem(ids[i], HasTags(ids[i]), i # 1)]]}

\* ------------------------------------------------------------------- state

Sessions == {1, 2}

VARIABLES
  admitted,       \* the sessions on which a request may arrive
  route,          \* per session: "none", "videos" (GET /) or "stream" (GET /stream)
  channelInput,   \* req.query.channel
  pc,             \* where the session's async chain is suspended
  opts,           \* the options the entry point passes to the fetcher
  channelId,      \* const channelId of the entry point
  channelInfo,    \* const channelInfo of the entry point
  allVideos,      \* let allVideos of the fetch loop
  nextPageToken,  \* let nextPageToken of the fetch loop
  pageCount,      \* let pageCount of the fetch loop
  pageResponse,   \* const response of the current loop iteration
  videoCount,     \* let videoCount of the stream route
  res,            \* the HTTP response: status, JSON body, events written, ended
  promise,        \* the promise fetchYoutubeVideos returned
  sinkLog,        \* the handlers streamYoutubeVideos has invoked, in order
  calls,          \* the upstream calls issued, in order
  failure,        \* the first error thrown in the session
  closePage,      \* pageCount when the client disconnected, -1 before
  served,         \* the search pages the upstream answered, with their detail batches
  delays,         \* the inter-page delays taken
  client          \* the page in the browser: its variables and its event sources

vars == <<admitted, route, channelInput, pc, opts, channelId, channelInfo,
          allVideos, nextPageToken, pageCount, pageResponse, videoCount, res,
          promise, sinkLog, calls, failure, closePage, served, delays, client>>

\* const { maxResults = 50, order = "date", ..., includeDetails = true }
DefaultOptions ==
  [maxResults |-> PageCap, order |-> "date", publishedAfter |-> "null",
   publishedBefore |-> "null", includeDetails |-> TRUE]

\* The options both entry points pass
EntryOptions ==
  Spread(DefaultOptions,
         [maxResults |-> EntryMaxResults, order |-> "date", includeDetails |-> TRUE])

NoBody == [kind |-> "none"]
NoResponse == [status |-> 0, body |-> NoBody, events |-> <<>>, ended |-> FALSE]
NoAnswer == [ok |-> TRUE, items |-> <<>>, nextPageToken |-> NoToken]
Pending == [state |-> "pending"]

\* The browser page once its script has run: let allVideos = [], let
\* filteredVideos = [], let isStreaming = false and no EventSource.  source
\* is the readyState of the EventSource made for each session, read the
\* number of its messages dispatched, query the channel it asked for,
\* current the session of the latest one, lastRequest what became of the
\* latest fetch request
PageLoaded ==
  [isStreaming |-> FALSE, allVideos |-> <<>>, filteredVideos |-> <<>>,
   source |-> [s \in Sessions |-> "none"], read |-> [s \in Sessions |-> 0],
   query |-> [s \in Sessions |-> <<>>], current |-> 0, lastRequest |-> "none"]

\* The state before any handler ran: requests may arrive on the sessions
\* adm, and inputs are the arguments of direct calls of the fetcher
InitWith(adm, inputs) ==
  /\ admitted = adm
  /\ client = PageLoaded
  /\ route = [s \in Sessions |-> "none"]
  /\ channelInput = inputs
  /\ pc = [s \in Sessions |-> "idle"]
  /\ opts = [s \in Sessions |-> DefaultOptions]
  /\ channelId = [s \in Sessions |-> <<>>]
  /\ channelInfo = [s \in Sessions |-> [id |-> <<>>]]
  /\ allVideos = [s \in Sessions |-> <<>>]
  /\ nextPageToken = [s \in Sessions |-> NoToken]
  /\ pageCount = [s \in Sessions |-> 0]
  /\ pageResponse = [s \in Sessions |-> NoAnswer]
  /\ videoCount = [s \in Sessions |-> 0]
  /\ res = [s \in Sessions |-> NoResponse]
  /\ promise = [s \in Sessions |-> Pending]
  /\ sinkLog = [s \in Sessions |-> <<>>]
  /\ calls = [s \in Sessions |-> <<>>]
  /\ failure = [s \in Sessions |-> NoError]
  /\ closePage = [s \in Sessions |-> -1]
  /\ served = [s \in Sessions |-> <<>>]
  /\ delays = [s \in Sessions |-> 0]

Init == InitWith({1}, [s \in Sessions |-> Undefined])

\* What the upstream served: a search page as answered, and the ids of the
\* detail batch answered for it (none before that answer)
Served(answer) ==
  [items |-> answer.items, nextPageToken |-> answer.nextPageToken, details |-> <<>>]

\* The served pages with the detail batch answered for the last of them
WithDetails(pages, answer) ==
  [pages EXCEPT ![Len(pages)].details = [i \in 1..Len(answer.items) |-> answer.items[i].id]]

\* Mutant of LoopContinues: a loop that never follows the cursor
LoopNeverContinues(token) == FALSE

\* if (nextPageToken) and while (nextPageToken): a cursor is there
LoopContinues(token) == token # NoToken

\* ------------------------------------------------------- the upstream calls

Min(a, b) == IF a <= b THEN a ELSE b

\* youtube.search.list({part: "snippet", q, type: "channel", maxResults: 1})
ChannelSearchCall(q) ==
  [api |-> "search.list", type |-> "channel", q |-> q, maxResults |-> 1]

\* youtube.channels.list({part: "snippet,statistics", id})
ChannelsCall(id) == [api |-> "channels.list", id |-> id]

\* Mutant of SearchCall: pageToken is left at its initial null
SearchCallWithoutCursor(id, o, token, page) ==
  Spread(
    Spread([api |-> "search.list", type |-> "video", channelId |-> id,
            order |-> o.order, maxResults |-> Min(o.maxResults, PageCap),
            pageToken |-> NoToken, page |-> page],
           IF o.publishedAfter # "null"
           THEN [publishedAfter |-> o.publishedAfter] ELSE <<>>),
    IF o.publishedBefore # "null"
    THEN [publishedBefore |-> o.publishedBefore] ELSE <<>>)

\* The searchParams of one loop iteration, sent by youtube.search.list
SearchCall(id, o, token, page) ==
  Spread(
    Spread([api |-> "search.list", type |-> "video", channelId |-> id,
            order |-> o.order, maxResults |-> Min(o.maxResults, PageCap),
            pageToken |-> token, page |-> page],
           IF o.publishedAfter # "null"
           THEN [publishedAfter |-> o.publishedAfter] ELSE <<>>),
    IF o.publishedBefore # "null"
    THEN [publishedBefore |-> o.publishedBefore] ELSE <<>>)

\* youtube.videos.list({part: "snippet,statistics,contentDetails", id})
DetailsCall(ids, page) == [api |-> "videos.list", id |-> ids, page |-> page]

\* ------------------------------------------------- the stream route's sink

\* Mutant of RouteEvent: the error event carries a fixed message
RouteEventFixedError(call, count) ==
  IF call.handler = "onProgress"
  THEN Spread([type |-> "progress"], call.arg)
  ELSE IF call.handler = "onVideo"
  THEN [type |-> "video", video |-> call.arg, count |-> count]
  ELSE IF call.handler = "onComplete"
  THEN Spread(Spread([type |-> "complete"], call.arg), [totalVideos |-> count])
  ELSE [type |-> "error", message |-> Text("Failed to fetch videos", <<>>)]

\* The four handlers the stream route passes to streamYoutubeVideos: what
\* each writes to the response.  count is videoCount after the handler's
\* own increment.
RouteEvent(call, count) ==
  IF call.handler = "onProgress"
  THEN Spread([type |-> "progress"], call.arg)
  ELSE IF call.handler = "onVideo"
  THEN [type |-> "video", video |-> call.arg, count |-> count]
  ELSE IF call.handler = "onComplete"
  THEN Spread(Spread([type |-> "complete"], call.arg), [totalVideos |-> count])
  ELSE [type |-> "error", message |-> call.arg.message]

\* Mutant of CountAfter: count: videoCount++ written into the event, the
\* value before the increment
CountAfterPostIncrement(sinkCalls, count, n) ==
  count + Cardinality({i \in 1..(n - 1) : sinkCalls[i].handler = "onVideo"})

\* videoCount after the first n of the handler calls ran
CountAfter(sinkCalls, count, n) ==
  count + Cardinality({i \in 1..n : sinkCalls[i].handler = "onVideo"})

\* Mutant of Deliver: let videoCount declared at module level, one counter
\* for all requests
DeliverSharedCounter(s, r, count, sinkCalls) ==
  /\ sinkLog' = [sinkLog EXCEPT ![s] = @ \o [i \in 1..Len(sinkCalls) |-> sinkCalls[i].handler]]
  /\ videoCount' = [t \in Sessions |-> CountAfter(sinkCalls, count, Len(sinkCalls))]
  /\ res' = [res EXCEPT ![s] =
       [r EXCEPT
          !.events = @ \o [i \in 1..Len(sinkCalls) |->
                             RouteEvent(sinkCalls[i], CountAfter(sinkCalls, count, i))],
          !.ended = @ \/ \E i \in 1..Len(sinkCalls) :
                             sinkCalls[i].handler \in {"onComplete", "onError"}]]

\* The handler calls of one step, run in order on session s, whose response
\* is r and whose videoCount is count before them
Deliver(s, r, count, sinkCalls) ==
  /\ sinkLog' = [sinkLog EXCEPT ![s] = @ \o [i \in 1..Len(sinkCalls) |-> sinkCalls[i].handler]]
  /\ videoCount' = [videoCount EXCEPT ![s] = CountAfter(sinkCalls, count, Len(sinkCalls))]
  /\ res' = [res EXCEPT ![s] =
       [r EXCEPT
          !.events = @ \o [i \in 1..Len(sinkCalls) |->
                             RouteEvent(sinkCalls[i], CountAfter(sinkCalls, count, i))],
          !.ended = @ \/ \E i \in 1..Len(sinkCalls) :
                             sinkCalls[i].handler \in {"onComplete", "onError"}]]

OnProgress(arg) == [handler |-> "onProgress", arg |-> arg]
OnVideo(video) == [handler |-> "onVideo", arg |-> video]
OnComplete(arg) == [handler |-> "onComplete", arg |-> arg]
\* Mutant of OnError: the catch block reports through onComplete
OnErrorAsComplete(error) == [handler |-> "onComplete", arg |-> error]
OnError(error) == [handler |-> "onError", arg |-> error]

\* The progress notifications of streamYoutubeVideos
ChannelLookup(input) ==
  OnProgress([stage |-> "channel_lookup", message |-> Text("Looking up channel", input.str)])
ChannelInfoStage ==
  OnProgress([stage |-> "channel_info", message |-> Text("Fetching channel information...", <<>>)])
ChannelReady(info) ==
  OnProgress([stage |-> "channel_ready", message |-> Text("Channel found", info.title),
              channelInfo |-> info])
VideosStart ==
  OnProgress([stage |-> "videos_start", message |-> Text("Starting video fetch...", <<>>)])
\* onProgress of the options streamYoutubeVideos passes to the fetcher
VideosProgress(progress) ==
  OnProgress(Spread([stage |-> "videos_progress",
                     message |-> Text("Fetching page", <<ToString(progress.page),
                                                         ToString(progress.totalFetched)>>)],
                    progress))
\* Mutant of OnVideos: only the first video of a page is passed on
OnVideosFirstOnly(videos) == IF videos = <<>> THEN <<>> ELSE <<OnVideo(videos[1])>>

\* onVideos of the options streamYoutubeVideos passes to the fetcher
OnVideos(videos) == [i \in 1..Len(videos) |-> OnVideo(videos[i])]
\* Mutant of Complete: only the channel's id is passed on at the end
CompleteWithIdOnly(info) ==
  OnComplete([message |-> Text("All videos fetched successfully", <<>>),
              channelInfo |-> [id |-> info.id]])

\* onComplete({message, channelInfo}) of streamYoutubeVideos
Complete(info) ==
  OnComplete([message |-> Text("All videos fetched successfully", <<>>), channelInfo |-> info])

\* Mutant of PageProgress: hasMore is true on every page
PageProgressAlwaysMore(page, videos, token) ==
  [page |-> page, totalFetched |-> Len(videos), hasMore |-> TRUE]

\* The progress notification streamAllChannelVideos makes at the top of a
\* loop iteration
PageProgress(page, videos, token) ==
  [page |-> page, totalFetched |-> Len(videos), hasMore |-> token # NoToken]

\* ---------------------------------------------------------- GET /stream

ConnectedEvent == [type |-> "connected", message |-> Text("Stream started", <<>>)]

\* Mutant of StreamFails: the catch block only logs, as fetchYoutubeVideos'
StreamFailsSwallowed(s, r, count, before, error) ==
  /\ Deliver(s, r, count, before)
  /\ failure' = [failure EXCEPT ![s] = error]
  /\ pc' = [pc EXCEPT ![s] = "done"]

\* catch (error) { onError(error) } of streamYoutubeVideos, after the
\* handler calls before made in the same step
StreamFails(s, r, count, before, error) ==
  /\ Deliver(s, r, count, before \o <<OnError(error)>>)
  /\ failure' = [failure EXCEPT ![s] = error]
  /\ pc' = [pc EXCEPT ![s] = "done"]

\* streamYoutubeVideos once channelId is known: the channel_info stage and
\* the channels.list call of getChannelInfo
StreamAsksChannelInfo(s, r, count, before, id) ==
  /\ channelId' = [channelId EXCEPT ![s] = id]
  /\ Deliver(s, r, count, before \o <<ChannelInfoStage>>)
  /\ calls' = [calls EXCEPT ![s] = Append(@, ChannelsCall(id))]
  /\ pc' = [pc EXCEPT ![s] = "awaitChannelInfo"]
  /\ UNCHANGED failure

\* Mutant of StreamAsksPage: the progress of the page is notified ahead of
\* the notifications made before the loop
StreamAsksPageProgressFirst(s, o, before, page, videos, token) ==
  /\ pageCount' = [pageCount EXCEPT ![s] = page]
  /\ Deliver(s, res[s], videoCount[s],
             <<VideosProgress(PageProgress(page, videos, token))>> \o before)
  /\ calls' = [calls EXCEPT ![s] = Append(@, SearchCall(channelId[s], o, token, page))]
  /\ pc' = [pc EXCEPT ![s] = "awaitSearch"]

\* One iteration of the do-while loop of streamAllChannelVideos up to its
\* search call: page is the new pageCount
StreamAsksPage(s, o, before, page, videos, token) ==
  /\ pageCount' = [pageCount EXCEPT ![s] = page]
  /\ Deliver(s, res[s], videoCount[s],
             before \o <<VideosProgress(PageProgress(page, videos, token))>>)
  /\ calls' = [calls EXCEPT ![s] = Append(@, SearchCall(channelId[s], o, token, page))]
  /\ pc' = [pc EXCEPT ![s] = "awaitSearch"]

\* Mutant of StreamEndsPage: the loop goes on to the next page without the
\* pause being taken
StreamEndsPageNoPause(s, found, videos, token) ==
  /\ allVideos' = [allVideos EXCEPT ![s] = IF found THEN @ \o videos ELSE @]
  /\ nextPageToken' = [nextPageToken EXCEPT ![s] = token]
  /\ UNCHANGED <<calls, failure, pageCount, delays>>
  /\ IF LoopContinues(token)
     THEN /\ Deliver(s, res[s], videoCount[s], IF found THEN OnVideos(videos) ELSE <<>>)
          /\ pc' = [pc EXCEPT ![s] = "awaitDelay"]
     ELSE /\ Deliver(s, res[s], videoCount[s],
                     (IF found THEN OnVideos(videos) ELSE <<>>)
                       \o <<Complete(channelInfo[s])>>)
          /\ pc' = [pc EXCEPT ![s] = "done"]

\* The rest of a loop iteration of streamAllChannelVideos once the page's
\* videos are final: accumulate, deliver, take the cursor, then delay or
\* leave the loop, return, and let streamYoutubeVideos complete.  found
\* tells whether the page had items (the if of line 151).
StreamEndsPage(s, found, videos, token) ==
  /\ allVideos' = [allVideos EXCEPT ![s] = IF found THEN @ \o videos ELSE @]
  /\ nextPageToken' = [nextPageToken EXCEPT ![s] = token]
  /\ UNCHANGED <<calls, failure, pageCount>>
  /\ IF LoopContinues(token)
     THEN /\ Deliver(s, res[s], videoCount[s], IF found THEN OnVideos(videos) ELSE <<>>)
          /\ delays' = [delays EXCEPT ![s] = @ + 1]
          /\ pc' = [pc EXCEPT ![s] = "awaitDelay"]
     ELSE /\ Deliver(s, res[s], videoCount[s],
                     (IF found THEN OnVideos(videos) ELSE <<>>)
                       \o <<Complete(channelInfo[s])>>)
          /\ UNCHANGED delays
          /\ pc' = [pc EXCEPT ![s] = "done"]

\* router.get("/stream", ...): the handler up to the first await of
\* streamYoutubeVideos
GetStream(s, input) ==
  /\ s \in admitted
  /\ pc[s] = "idle"
  /\ route' = [route EXCEPT ![s] = "stream"]
  /\ channelInput' = [channelInput EXCEPT ![s] = input]
  /\ UNCHANGED <<client, admitted, opts, channelInfo, allVideos, nextPageToken, pageCount,
                 pageResponse, promise, closePage, served, delays>>
  /\ IF Falsy(input)
     THEN /\ res' = [res EXCEPT ![s] =
                       [status |-> BadRequest,
                        body |-> [kind |-> "error", error |-> "Channel parameter is required"],
                        events |-> <<>>, ended |-> TRUE]]
          /\ pc' = [pc EXCEPT ![s] = "done"]
          /\ UNCHANGED <<channelId, videoCount, sinkLog, calls, failure>>
     ELSE LET r == [status |-> OkStatus, body |-> NoBody,
                    events |-> <<ConnectedEvent>>, ended |-> FALSE]
              local == ResolveLocal(input)
          IN CASE local.kind = "return" ->
                    StreamAsksChannelInfo(s, r, 0, <<ChannelLookup(input)>>, local.value)
               [] local.kind = "search" ->
                    /\ Deliver(s, r, 0, <<ChannelLookup(input)>>)
                    /\ calls' = [calls EXCEPT ![s] = Append(@, ChannelSearchCall(local.value))]
                    /\ pc' = [pc EXCEPT ![s] = "awaitChannelId"]
                    /\ UNCHANGED <<channelId, failure>>
               [] OTHER ->
                    /\ StreamFails(s, r, 0, <<ChannelLookup(input)>>, TypeError)
                    /\ UNCHANGED <<channelId, calls>>

\* The search call of getChannelId settles in a streaming session
StreamChannelIdSettles(s, answer) ==
  /\ route[s] = "stream"
  /\ pc[s] = "awaitChannelId"
  /\ UNCHANGED <<client, admitted, route, channelInput, opts, channelInfo, allVideos,
                 nextPageToken, pageCount, pageResponse, promise, closePage, served, delays>>
  /\ LET got == GetChannelId(channelInput[s], answer)
     IN IF got.ok
        THEN StreamAsksChannelInfo(s, res[s], videoCount[s], <<>>, got.value)
        ELSE /\ StreamFails(s, res[s], videoCount[s], <<>>, got.error)
             /\ UNCHANGED <<channelId, calls>>

\* The channels.list call of getChannelInfo settles in a streaming session;
\* on success streamAllChannelVideos starts and issues its first search
StreamChannelInfoSettles(s, answer) ==
  /\ route[s] = "stream"
  /\ pc[s] = "awaitChannelInfo"
  /\ UNCHANGED <<client, admitted, route, channelInput, channelId, pageResponse, promise,
                 closePage, served, delays>>
  /\ LET got == GetChannelInfo(channelId[s], answer)
     IN IF got.ok
        THEN /\ channelInfo' = [channelInfo EXCEPT ![s] = got.value]
             /\ opts' = [opts EXCEPT ![s] = EntryOptions]
             /\ allVideos' = [allVideos EXCEPT ![s] = <<>>]
             /\ nextPageToken' = [nextPageToken EXCEPT ![s] = NoToken]
             /\ StreamAsksPage(s, EntryOptions, <<ChannelReady(got.value), VideosStart>>, 1, <<>>, NoToken)
             /\ UNCHANGED failure
        ELSE /\ StreamFails(s, res[s], videoCount[s], <<>>, got.error)
             /\ UNCHANGED <<opts, channelInfo, allVideos, nextPageToken, pageCount, calls>>

\* The search call of a loop iteration settles in a streaming session
StreamSearchSettles(s, answer) ==
  /\ route[s] = "stream"
  /\ pc[s] = "awaitSearch"
  /\ UNCHANGED <<client, admitted, route, channelInput, opts, channelId, channelInfo,
                 promise, closePage>>
  /\ IF ~answer.ok
     THEN /\ StreamFails(s, res[s], videoCount[s], <<>>, UpstreamError(answer.message))
          /\ UNCHANGED <<allVideos, nextPageToken, pageCount, pageResponse, calls,
                         served, delays>>
     ELSE /\ pageResponse' = [pageResponse EXCEPT ![s] = answer]
          /\ served' = [served EXCEPT ![s] = Append(@, Served(answer))]
          /\ IF Len(answer.items) > 0 /\ opts[s].includeDetails
             THEN /\ calls' = [calls EXCEPT ![s] =
                                 Append(@, DetailsCall(VideoIds(answer.items), pageCount[s]))]
                  /\ pc' = [pc EXCEPT ![s] = "awaitDetails"]
                  /\ UNCHANGED <<allVideos, nextPageToken, pageCount, videoCount, res,
                                 sinkLog, failure, delays>>
             ELSE StreamEndsPage(s, Len(answer.items) > 0, answer.items, answer.nextPageToken)

\* Mutant of StreamDetailsSettle: when the detail call fails the videos of
\* the page are passed on as the search returned them, then the error
StreamDetailsSettleFallsBack(s, answer) ==
  /\ route[s] = "stream"
  /\ pc[s] = "awaitDetails"
  /\ UNCHANGED <<client, admitted, route, channelInput, opts, channelId, channelInfo,
                 pageResponse, promise, closePage>>
  /\ LET got == GetVideoDetails(answer)
     IN IF got.ok
        THEN /\ served' = [served EXCEPT ![s] = WithDetails(@, answer)]
             /\ StreamEndsPage(s, TRUE, MergeDetails(pageResponse[s].items, got.value),
                               pageResponse[s].nextPageToken)
        ELSE /\ StreamFails(s, res[s], videoCount[s], OnVideos(pageResponse[s].items),
                            got.error)
             /\ UNCHANGED <<allVideos, nextPageToken, pageCount, calls, served, delays>>

\* The videos.list call of getVideoDetails settles in a streaming session
StreamDetailsSettle(s, answer) ==
  /\ route[s] = "stream"
  /\ pc[s] = "awaitDetails"
  /\ UNCHANGED <<client, admitted, route, channelInput, opts, channelId, channelInfo,
                 pageResponse, promise, closePage>>
  /\ LET got == GetVideoDetails(answer)
     IN IF got.ok
        THEN /\ served' = [served EXCEPT ![s] = WithDetails(@, answer)]
             /\ StreamEndsPage(s, TRUE, MergeDetails(pageResponse[s].items, got.value),
                               pageResponse[s].nextPageToken)
        ELSE /\ StreamFails(s, res[s], videoCount[s], <<>>, got.error)
             /\ UNCHANGED <<allVideos, nextPageToken, pageCount, calls, served, delays>>

\* this.delay(100) elapses in a streaming session: while (nextPageToken)
\* holds, so the next iteration starts
StreamDelayElapses(s) ==
  /\ route[s] = "stream"
  /\ pc[s] = "awaitDelay"
  /\ StreamAsksPage(s, opts[s], <<>>, pageCount[s] + 1, allVideos[s], nextPageToken[s])
  /\ UNCHANGED <<client, admitted, route, channelInput, opts, channelId, channelInfo,
                 allVideos, nextPageToken, pageResponse, promise, failure,
                 closePage, served, delays>>

\* req.on("close", ...): the client disconnects; the handler only logs
ClientCloses(s) ==
  /\ route[s] = "stream"
  /\ pc[s] \notin {"idle", "done"}
  /\ closePage[s] = -1
  /\ closePage' = [closePage EXCEPT ![s] = pageCount[s]]
  /\ UNCHANGED <<client, admitted, route, channelInput, pc, opts, channelId, channelInfo,
                 allVideos, nextPageToken, pageCount, pageResponse, videoCount, res,
                 promise, sinkLog, calls, failure, served, delays>>

StreamNext ==
  \E s \in Sessions :
    \/ \E input \in ChannelInputs : GetStream(s, input)
    \/ \E answer \in ChannelSearchAnswers : StreamChannelIdSettles(s, answer)
    \/ \E answer \in ChannelsAnswers : StreamChannelInfoSettles(s, answer)
    \/ \E answer \in SearchAnswers(pageCount[s]) : StreamSearchSettles(s, answer)
    \/ \E answer \in DetailAnswers(VideoIds(pageResponse[s].items)) : StreamDetailsSettle(s, answer)
    \/ StreamDelayElapses(s)
    \/ ClientCloses(s)

\* ------------------------------------------------------------ GET /

\* res.json(videos) of the route once fetchYoutubeVideos settled: a
\* resolved promise is answered with Express' default status; a rejection
\* would leave the handler without an answer
RouteJson(r, settled) ==
  IF settled.state = "resolved"
  THEN [r EXCEPT !.status = OkStatus, !.body = settled.value, !.ended = TRUE]
  ELSE r

\* The routes of a direct call of the fetcher: of getAllChannelVideos, and
\* of streamAllChannelVideos without callbacks (onProgress and onVideos
\* default to functions that do nothing, which leaves the steps of
\* getAllChannelVideos)
DirectRoutes == {"fetcher", "streamer"}

\* fetchYoutubeVideos settles as settled, and the route answers; a direct
\* call of getAllChannelVideos settles with no route to answer
FetchSettles(s, settled) ==
  /\ promise' = [promise EXCEPT ![s] = settled]
  /\ res' = [res EXCEPT ![s] = IF route[s] \in DirectRoutes THEN @ ELSE RouteJson(@, settled)]
  /\ pc' = [pc EXCEPT ![s] = "done"]

\* What fetchYoutubeVideos settles as when error reaches its catch block
FetchCaught(error) == [state |-> "resolved", value |-> [kind |-> "undefined"]]

\* What fetchYoutubeVideos settles as at return videos
FetchReturned(videos) == [state |-> "resolved", value |-> [kind |-> "array", videos |-> videos]]

\* Mutant of FetchFails: the loop backs off and goes on after an error
FetchFailsBacksOff(s, error) ==
  /\ failure' = [failure EXCEPT ![s] = error]
  /\ pc' = [pc EXCEPT ![s] = "awaitDelay"]
  /\ UNCHANGED <<promise, res>>

\* What getAllChannelVideos settles as at throw error
Rejected(error) == [state |-> "rejected", error |-> error]

\* catch (error) { console.error(...) } of fetchYoutubeVideos; a direct
\* call of getAllChannelVideos has no such caller and rejects
FetchFails(s, error) ==
  /\ FetchSettles(s, IF route[s] \in DirectRoutes THEN Rejected(error) ELSE FetchCaught(error))
  /\ failure' = [failure EXCEPT ![s] = error]

\* Mutant of FetchAsksChannelInfo: the channel info is asked for twice
FetchAsksChannelInfoTwice(s, id) ==
  /\ channelId' = [channelId EXCEPT ![s] = id]
  /\ calls' = [calls EXCEPT ![s] = Append(Append(@, ChannelsCall(id)), ChannelsCall(id))]
  /\ pc' = [pc EXCEPT ![s] = "awaitChannelInfo"]
  /\ UNCHANGED <<failure, promise, res>>

\* fetchYoutubeVideos once channelId is known: the channels.list call
FetchAsksChannelInfo(s, id) ==
  /\ channelId' = [channelId EXCEPT ![s] = id]
  /\ calls' = [calls EXCEPT ![s] = Append(@, ChannelsCall(id))]
  /\ pc' = [pc EXCEPT ![s] = "awaitChannelInfo"]
  /\ UNCHANGED <<failure, promise, res>>

\* One iteration of the do-while loop of getAllChannelVideos up to its
\* search call
FetchAsksPage(s, o, page, token) ==
  /\ pageCount' = [pageCount EXCEPT ![s] = page]
  /\ calls' = [calls EXCEPT ![s] = Append(@, SearchCall(channelId[s], o, token, page))]
  /\ pc' = [pc EXCEPT ![s] = "awaitSearch"]
  /\ UNCHANGED <<promise, res>>

\* Mutant of FetchEndsPage: a page without items ends the loop
FetchEndsPageStopsWhenEmpty(s, found, videos, token) ==
  /\ allVideos' = [allVideos EXCEPT ![s] = IF found THEN @ \o videos ELSE @]
  /\ nextPageToken' = [nextPageToken EXCEPT ![s] = token]
  /\ UNCHANGED <<calls, failure, pageCount>>
  /\ IF found /\ LoopContinues(token)
     THEN /\ delays' = [delays EXCEPT ![s] = @ + 1]
          /\ pc' = [pc EXCEPT ![s] = "awaitDelay"]
          /\ UNCHANGED <<promise, res>>
     ELSE /\ FetchSettles(s, FetchReturned(IF found THEN allVideos[s] \o videos
                                                    ELSE allVideos[s]))
          /\ UNCHANGED delays

\* The rest of a loop iteration of getAllChannelVideos once the page's
\* videos are final
FetchEndsPage(s, found, videos, token) ==
  /\ allVideos' = [allVideos EXCEPT ![s] = IF found THEN @ \o videos ELSE @]
  /\ nextPageToken' = [nextPageToken EXCEPT ![s] = token]
  /\ UNCHANGED <<calls, failure, pageCount>>
  /\ IF LoopContinues(token)
     THEN /\ delays' = [delays EXCEPT ![s] = @ + 1]
          /\ pc' = [pc EXCEPT ![s] = "awaitDelay"]
          /\ UNCHANGED <<promise, res>>
     ELSE /\ FetchSettles(s, FetchReturned(IF found THEN allVideos[s] \o videos
                                                    ELSE allVideos[s]))
          /\ UNCHANGED delays

\* router.get("/", ...): the handler up to the first await of
\* fetchYoutubeVideos
GetVideos(s, input) ==
  /\ s \in admitted
  /\ pc[s] = "idle"
  /\ route' = [route EXCEPT ![s] = "videos"]
  /\ channelInput' = [channelInput EXCEPT ![s] = input]
  /\ UNCHANGED <<client, admitted, opts, channelInfo, allVideos, nextPageToken, pageCount,
                 pageResponse, videoCount, sinkLog, closePage, served, delays>>
  /\ LET local == ResolveLocal(input)
     IN CASE local.kind = "return" -> FetchAsksChannelInfo(s, local.value)
          [] local.kind = "search" ->
               /\ calls' = [calls EXCEPT ![s] = Append(@, ChannelSearchCall(local.value))]
               /\ pc' = [pc EXCEPT ![s] = "awaitChannelId"]
               /\ UNCHANGED <<channelId, failure, promise, res>>
          [] OTHER ->
               /\ FetchFails(s, TypeError)
               /\ UNCHANGED <<channelId, calls>>

\* The search call of getChannelId settles in a batch session
FetchChannelIdSettles(s, answer) ==
  /\ route[s] = "videos"
  /\ pc[s] = "awaitChannelId"
  /\ UNCHANGED <<client, admitted, route, channelInput, opts, channelInfo, allVideos,
                 nextPageToken, pageCount, pageResponse, videoCount, sinkLog,
                 closePage, served, delays>>
  /\ LET got == GetChannelId(channelInput[s], answer)
     IN IF got.ok
        THEN FetchAsksChannelInfo(s, got.value)
        ELSE /\ FetchFails(s, got.error)
             /\ UNCHANGED <<channelId, calls>>

\* The channels.list call of getChannelInfo settles in a batch session; on
\* success getAllChannelVideos starts and issues its first search
FetchChannelInfoSettles(s, answer) ==
  /\ route[s] = "videos"
  /\ pc[s] = "awaitChannelInfo"
  /\ UNCHANGED <<client, admitted, route, channelInput, channelId, pageResponse, videoCount,
                 sinkLog, closePage, served, delays>>
  /\ LET got == GetChannelInfo(channelId[s], answer)
     IN IF got.ok
        THEN /\ channelInfo' = [channelInfo EXCEPT ![s] = got.value]
             /\ opts' = [opts EXCEPT ![s] = EntryOptions]
             /\ allVideos' = [allVideos EXCEPT ![s] = <<>>]
             /\ nextPageToken' = [nextPageToken EXCEPT ![s] = NoToken]
             /\ FetchAsksPage(s, EntryOptions, 1, NoToken)
             /\ UNCHANGED failure
        ELSE /\ FetchFails(s, got.error)
             /\ UNCHANGED <<opts, channelInfo, allVideos, nextPageToken, pageCount, calls>>

\* The search call of a loop iteration settles in a batch session
FetchSearchSettles(s, answer) ==
  /\ route[s] \in {"videos"} \cup DirectRoutes
  /\ pc[s] = "awaitSearch"
  /\ UNCHANGED <<client, admitted, route, channelInput, opts, channelId, channelInfo,
                 videoCount, sinkLog, closePage>>
  /\ IF ~answer.ok
     THEN /\ FetchFails(s, UpstreamError(answer.message))
          /\ UNCHANGED <<allVideos, nextPageToken, pageCount, pageResponse, calls,
                         served, delays>>
     ELSE /\ pageResponse' = [pageResponse EXCEPT ![s] = answer]
          /\ served' = [served EXCEPT ![s] = Append(@, Served(answer))]
          /\ IF Len(answer.items) > 0 /\ opts[s].includeDetails
             THEN /\ calls' = [calls EXCEPT ![s] =
                                 Append(@, DetailsCall(VideoIds(answer.items), pageCount[s]))]
                  /\ pc' = [pc EXCEPT ![s] = "awaitDetails"]
                  /\ UNCHANGED <<allVideos, nextPageToken, pageCount, promise, res,
                                 failure, delays>>
             ELSE FetchEndsPage(s, Len(answer.items) > 0, answer.items, answer.nextPageToken)

\* The videos.list call of getVideoDetails settles in a batch session
FetchDetailsSettle(s, answer) ==
  /\ route[s] \in {"videos"} \cup DirectRoutes
  /\ pc[s] = "awaitDetails"
  /\ UNCHANGED <<client, admitted, route, channelInput, opts, channelId, channelInfo,
                 pageResponse, videoCount, sinkLog, closePage>>
  /\ LET got == GetVideoDetails(answer)
     IN IF got.ok
        THEN /\ served' = [served EXCEPT ![s] = WithDetails(@, answer)]
             /\ FetchEndsPage(s, TRUE, MergeDetails(pageResponse[s].items, got.value),
                              pageResponse[s].nextPageToken)
        ELSE /\ FetchFails(s, got.error)
             /\ UNCHANGED <<allVideos, nextPageToken, pageCount, calls, served, delays>>

\* this.delay(100) elapses in a batch session
FetchDelayElapses(s) ==
  /\ route[s] \in {"videos"} \cup DirectRoutes
  /\ pc[s] = "awaitDelay"
  /\ FetchAsksPage(s, opts[s], pageCount[s] + 1, nextPageToken[s])
  /\ UNCHANGED <<client, admitted, route, channelInput, opts, channelId, channelInfo,
                 allVideos, nextPageToken, pageResponse, videoCount, sinkLog,
                 failure, closePage, served, delays>>

FetchNext ==
  \E s \in Sessions :
    \/ \E input \in ChannelInputs : GetVideos(s, input)
    \/ \E answer \in ChannelSearchAnswers : FetchChannelIdSettles(s, answer)
    \/ \E answer \in ChannelsAnswers : FetchChannelInfoSettles(s, answer)
    \/ \E answer \in SearchAnswers(pageCount[s]) : FetchSearchSettles(s, answer)
    \/ \E answer \in DetailAnswers(VideoIds(pageResponse[s].items)) : FetchDetailsSettle(s, answer)
    \/ FetchDelayElapses(s)

Next == StreamNext \/ FetchNext

Spec == Init /\ [][Next]_vars

\* --------------------------------------- getAllChannelVideos by itself

\* The values of maxResults a caller passes
MaxResultsValues == {-1, 0, 1, PageCap - 1, PageCap, PageCap + 1, 2 * PageCap}

\* The options argument of a direct call: none, or a page size without the
\* detail lookup
NoOptions == [k \in {} |-> 0]
FetcherOptions ==
  {NoOptions} \cup {[maxResults |-> n, includeDetails |-> FALSE] : n \in MaxResultsValues}

\* fetcher.getAllChannelVideos(channelId, options) called directly, up to
\* the search call of its first page
GetAllChannelVideos(s, id, options) ==
  /\ s \in admitted
  /\ pc[s] = "idle"
  /\ route' = [route EXCEPT ![s] = "fetcher"]
  /\ channelId' = [channelId EXCEPT ![s] = id]
  /\ opts' = [opts EXCEPT ![s] = Spread(DefaultOptions, options)]
  /\ allVideos' = [allVideos EXCEPT ![s] = <<>>]
  /\ nextPageToken' = [nextPageToken EXCEPT ![s] = NoToken]
  /\ pageCount' = [pageCount EXCEPT ![s] = 1]
  /\ calls' = [calls EXCEPT ![s] =
                 Append(@, SearchCall(id, Spread(DefaultOptions, options), NoToken, 1))]
  /\ pc' = [pc EXCEPT ![s] = "awaitSearch"]
  /\ UNCHANGED <<client, admitted, channelInput, channelInfo, pageResponse, videoCount, res,
                 promise, sinkLog, failure, closePage, served, delays>>

\* The values of order a caller passes: those the upstream knows, and one
\* it does not
KnownOrders == {"date", "rating", "relevance", "title", "videoCount", "viewCount"}
OrderValues == KnownOrders \cup {"newest"}

\* The options argument of a direct call of streamAllChannelVideos: none,
\* or an order without the detail lookup
StreamerOptions ==
  {NoOptions} \cup {[order |-> o, includeDetails |-> FALSE] : o \in OrderValues}

\* fetcher.streamAllChannelVideos(channelId, options) called directly
\* without callbacks, up to the search call of its first page
StreamAllChannelVideos(s, id, options) ==
  /\ s \in admitted
  /\ pc[s] = "idle"
  /\ route' = [route EXCEPT ![s] = "streamer"]
  /\ channelId' = [channelId EXCEPT ![s] = id]
  /\ opts' = [opts EXCEPT ![s] = Spread(DefaultOptions, options)]
  /\ allVideos' = [allVideos EXCEPT ![s] = <<>>]
  /\ nextPageToken' = [nextPageToken EXCEPT ![s] = NoToken]
  /\ pageCount' = [pageCount EXCEPT ![s] = 1]
  /\ calls' = [calls EXCEPT ![s] =
                 Append(@, SearchCall(id, Spread(DefaultOptions, options), NoToken, 1))]
  /\ pc' = [pc EXCEPT ![s] = "awaitSearch"]
  /\ UNCHANGED <<client, admitted, channelInput, channelInfo, pageResponse, videoCount, res,
                 promise, sinkLog, failure, closePage, served, delays>>

FetcherNext ==
  \E s \in Sessions :
    \/ \E options \in FetcherOptions : GetAllChannelVideos(s, CANONICAL_ID, options)
    \/ \E options \in StreamerOptions : StreamAllChannelVideos(s, CANONICAL_ID, options)
    \/ \E answer \in SearchAnswers(pageCount[s]) : FetchSearchSettles(s, answer)
    \/ \E answer \in DetailAnswers(VideoIds(pageResponse[s].items)) : FetchDetailsSettle(s, answer)
    \/ FetchDelayElapses(s)

SpecFetcher == Init /\ [][FetcherNext]_vars

\* ------------------------------------------------------------- scheduling

\* What the event loop guarantees: the timer of this.delay(100) fires and
\* the loop goes on.  No await of an upstream call carries a timeout and no
\* handler cancels one, so nothing makes such a call settle: the settle
\* steps are the upstream's and carry no fairness.
SpecFair ==
  /\ Spec
  /\ \A s \in Sessions : WF_vars(StreamDelayElapses(s)) /\ WF_vars(FetchDelayElapses(s))

\* ------------------------------------------------- concurrent requests

\* The upstream of the concurrent specification: the channel exists, every
\* page is full, a detail batch answers all ids in the order asked, and
\* any search or detail call may fail
ConcurrentSearchAnswers(p) ==
  {a \in SearchAnswers(p) :
     IF a.ok THEN Len(a.items) = MaxItems ELSE a.message = "quotaExceeded"}
ConcurrentDetailAnswers(ids) ==
  {a \in DetailAnswers(ids) :
     IF a.ok THEN [i \in 1..Len(a.items) |-> a.items[i].id] = ids
     ELSE a.message = "quotaExceeded"}

\* Requests arrive on both sessions, and their handlers interleave at
\* every await
ConcurrentInit == InitWith(Sessions, [s \in Sessions |-> Undefined])

ConcurrentNext ==
  \E s \in Sessions :
    \/ GetStream(s, StrInput(CANONICAL_ID))
    \/ StreamChannelInfoSettles(s, [kind |-> "found"])
    \/ \E answer \in ConcurrentSearchAnswers(pageCount[s]) : StreamSearchSettles(s, answer)
    \/ \E answer \in ConcurrentDetailAnswers(VideoIds(pageResponse[s].items)) :
         StreamDetailsSettle(s, answer)
    \/ StreamDelayElapses(s)
    \/ GetVideos(s, StrInput(CANONICAL_ID))
    \/ FetchChannelInfoSettles(s, [kind |-> "found"])
    \/ \E answer \in ConcurrentSearchAnswers(pageCount[s]) : FetchSearchSettles(s, answer)
    \/ \E answer \in ConcurrentDetailAnswers(VideoIds(pageResponse[s].items)) :
         FetchDetailsSettle(s, answer)
    \/ FetchDelayElapses(s)

SpecConcurrent == ConcurrentInit /\ [][ConcurrentNext]_vars

\* ------------------------------------------------- getChannelId by itself

\* fetcher.getChannelId(input) called directly, up to its return, its throw
\* or its search call
GetChannelIdStarts(s) ==
  /\ s \in admitted
  /\ pc[s] = "idle"
  /\ route' = [route EXCEPT ![s] = "resolver"]
  /\ UNCHANGED <<client, admitted, channelInput, opts, channelInfo, allVideos, nextPageToken,
                 pageCount, pageResponse, videoCount, res, promise, sinkLog,
                 closePage, served, delays>>
  /\ LET local == ResolveLocal(channelInput[s])
     IN CASE local.kind = "return" ->
               /\ channelId' = [channelId EXCEPT ![s] = local.value]
               /\ pc' = [pc EXCEPT ![s] = "done"]
               /\ UNCHANGED <<calls, failure>>
          [] local.kind = "search" ->
               /\ calls' = [calls EXCEPT ![s] = Append(@, ChannelSearchCall(local.value))]
               /\ pc' = [pc EXCEPT ![s] = "awaitChannelId"]
               /\ UNCHANGED <<channelId, failure>>
          [] OTHER ->
               /\ failure' = [failure EXCEPT ![s] = TypeError]
               /\ pc' = [pc EXCEPT ![s] = "done"]
               /\ UNCHANGED <<channelId, calls>>

\* The search call of a direct getChannelId settles
GetChannelIdSettles(s, answer) ==
  /\ route[s] = "resolver"
  /\ pc[s] = "awaitChannelId"
  /\ served' = [served EXCEPT ![s] = Append(@, answer)]
  /\ pc' = [pc EXCEPT ![s] = "done"]
  /\ UNCHANGED <<client, admitted, route, channelInput, opts, channelInfo, allVideos,
                 nextPageToken, pageCount, pageResponse, videoCount, res, promise,
                 sinkLog, calls, closePage, delays>>
  /\ LET got == GetChannelId(channelInput[s], answer)
     IN IF got.ok
        THEN /\ channelId' = [channelId EXCEPT ![s] = got.value]
             /\ UNCHANGED failure
        ELSE /\ failure' = [failure EXCEPT ![s] = got.error]
             /\ UNCHANGED channelId

\* getChannelId is called twice with the same input
ResolverInit ==
  \E input \in ResolverInputs : InitWith(Sessions, [s \in Sessions |-> input])

ResolverNext ==
  \E s \in Sessions :
    \/ GetChannelIdStarts(s)
    \/ \E answer \in ChannelSearchAnswers : GetChannelIdSettles(s, answer)

SpecResolver == ResolverInit /\ [][ResolverNext]_vars

\* ------------------------------------------------------------ observations

\* The session ran streamYoutubeVideos (the stream route got past its
\* parameter check)
Streaming(s) == route[s] = "stream" /\ res[s].status = OkStatus
\* The session ran fetchYoutubeVideos
Fetching(s) == route[s] = "videos"
Done(s) == pc[s] = "done"
\* No call of the session failed and nothing was thrown
Succeeded(s) == Done(s) /\ failure[s] = NoError
Failed(s) == failure[s] # NoError

\* The positions of log (a sequence of strings or of events) that pick holds of
Positions(log, pick(_)) == {i \in 1..Len(log) : pick(log[i])}
IsTerminalHandler(h) == h \in {"onComplete", "onError"}
EventsOfType(s, types) == {i \in 1..Len(res[s].events) : res[s].events[i].type \in types}

\* The video search calls and the detail calls the session issued
SearchCallsOf(s) ==
  {i \in 1..Len(calls[s]) : calls[s][i].api = "search.list" /\ calls[s][i].type = "video"}
DetailCallsOf(s) == {i \in 1..Len(calls[s]) : calls[s][i].api = "videos.list"}

\* The video id of a delivered record: of the detail record when merged,
\* of the search item otherwise
OutId(video) ==
  IF "videoId" \in DOMAIN video.id THEN video.id.videoId ELSE video.id.string

\* The videos a finished session delivered: the video events' videos of a
\* streaming session, the JSON array of a batch session
VideoEventsOf(s) == SelectSeq(res[s].events, LAMBDA e : e.type = "video")
Delivered(s) ==
  IF route[s] = "stream"
  THEN [i \in 1..Len(VideoEventsOf(s)) |-> VideoEventsOf(s)[i].video]
  ELSE IF res[s].body.kind = "array" THEN res[s].body.videos ELSE <<>>

\* All items of the served search pages, in page order
RECURSIVE ServedItems(_)
ServedItems(pages) ==
  IF pages = <<>> THEN <<>>
  ELSE ServedItems(SubSeq(pages, 1, Len(pages) - 1)) \o pages[Len(pages)].items

\* ---------------------------------------------------------------- claims

\* C1: every run of streamYoutubeVideos delivers exactly one terminal
\* notification to the sink, onComplete or onError and never both, and no
\* onProgress or onVideo follows it.  As a state property: the sink has seen
\* at most one terminal notification, it is the last one seen, and a
\* session has finished exactly when it has seen one.
C1_OneTerminalNotification ==
  \A s \in Sessions :
    Streaming(s) =>
      LET t == Positions(sinkLog[s], IsTerminalHandler)
      IN /\ Cardinality(t) <= 1
         /\ t \subseteq {Len(sinkLog[s])}
         /\ Done(s) <=> Cardinality(t) = 1

\* C1 witness: a run that delivered videos and then ended in onError
C1_Witness ==
  \E s \in Sessions :
    /\ Streaming(s) /\ Done(s)
    /\ \E i \in 1..Len(sinkLog[s]) : sinkLog[s][i] = "onVideo"
    /\ sinkLog[s][Len(sinkLog[s])] = "onError"

\* C2: a successful run of GET /api/videos/stream writes connected first
\* and once, then only progress and video events, then exactly one complete
\* and ends the response; the k-th video event carries count k.
C2_SuccessfulStreamOrder ==
  \A s \in Sessions :
    Streaming(s) =>
      LET ev == res[s].events
          n == Len(ev)
      IN /\ EventsOfType(s, {"connected"}) = {1}
         /\ \A k \in 1..Len(VideoEventsOf(s)) : VideoEventsOf(s)[k].count = k
         /\ Succeeded(s) =>
              /\ EventsOfType(s, {"complete"}) = {n}
              /\ EventsOfType(s, {"progress", "video"}) = 2..(n - 1)
              /\ res[s].ended

\* C2 witness: a successful run of two pages with one video each
C2_Witness ==
  \E s \in Sessions :
    /\ Streaming(s) /\ Succeeded(s)
    /\ Len(served[s]) = 2
    /\ Len(VideoEventsOf(s)) = 2
    /\ VideoEventsOf(s)[2].count = 2

\* C3: a run of GET /api/videos/stream in which the resolver, the channel
\* info call, a search call or a detail call fails writes connected, then
\* progress and video events, then exactly one error, ends the response,
\* and never writes complete.
C3_FailedStreamOrder ==
  \A s \in Sessions :
    (Streaming(s) /\ Failed(s)) =>
      LET n == Len(res[s].events)
      IN /\ EventsOfType(s, {"connected"}) = {1}
         /\ EventsOfType(s, {"error"}) = {n}
         /\ EventsOfType(s, {"progress", "video"}) = 2..(n - 1)
         /\ EventsOfType(s, {"complete"}) = {}
         /\ res[s].ended
         /\ Done(s)

\* C3 witness: the detail call of the second page fails after the first
\* page's videos were written
C3_Witness ==
  \E s \in Sessions :
    /\ Streaming(s) /\ Failed(s)
    /\ pageCount[s] = 2
    /\ calls[s][Len(calls[s])].api = "videos.list"
    /\ EventsOfType(s, {"video"}) # {}

\* C4: once the client has disconnected while the fetch loop runs, the loop
\* issues no search or detail call beyond the page in flight at the
\* disconnect (the calls of a later page can only have been issued after it).
C4_NoCallsAfterDisconnect ==
  \A s \in Sessions :
    closePage[s] >= 1 =>
      \A i \in SearchCallsOf(s) \cup DetailCallsOf(s) : calls[s][i].page <= closePage[s]

\* C5: in batch mode, after a failure fetchYoutubeVideos rejects; it never
\* resolves with a value.
C5_BatchRejectsOnFailure ==
  \A s \in Sessions :
    (Fetching(s) /\ Failed(s)) => promise[s].state # "resolved"

\* C6: GET /api/videos answers 200 with a JSON array only when the whole
\* fetch succeeded, and a non-2xx status with a body {error} when it failed.
C6_BatchStatus ==
  \A s \in Sessions :
    (Fetching(s) /\ res[s].ended) =>
      IF Failed(s)
      THEN res[s].status \notin 200..299 /\ res[s].body.kind = "error"
      ELSE res[s].status = OkStatus /\ res[s].body.kind = "array"

\* C7: GET /api/videos/stream with a missing or empty channel answers 400
\* with a JSON error body, writes no event and issues no upstream call.
C7_MissingChannelRejected ==
  \A s \in Sessions :
    (route[s] = "stream" /\ (~channelInput[s].defined \/ channelInput[s].str = <<>>)) =>
      /\ res[s].status = BadRequest
      /\ res[s].body.kind = "error"
      /\ res[s].ended
      /\ res[s].events = <<>>
      /\ sinkLog[s] = <<>>
      /\ calls[s] = <<>>
      /\ Done(s)

\* C7 witness: a stream request with an empty channel parameter was handled
C7_Witness ==
  \E s \in Sessions :
    /\ route[s] = "stream"
    /\ channelInput[s] = StrInput(<<>>)
    /\ res[s].ended

\* The session entered the fetch loop of the fetcher
InLoop(s) == pageCount[s] >= 1
\* The served pages that carried a cursor
WithCursor(pages) == {k \in 1..Len(pages) : pages[k].nextPageToken # NoToken}
\* The session ended the way a fetch without failure ends
EndedNormally(s) ==
  IF route[s] = "stream"
  THEN sinkLog[s] # <<>> /\ sinkLog[s][Len(sinkLog[s])] = "onComplete"
  ELSE promise[s].state = "resolved" /\ promise[s].value.kind = "array"

\* C8: when pages 1..N-1 carry a cursor, page N carries none and no call
\* fails, getAllChannelVideos and streamAllChannelVideos each issue exactly
\* N search calls and then end normally; the first call carries no cursor.
\* As a state property: the first search call carries no cursor, there is
\* never more than one search call beyond the cursors served, a session
\* that succeeded issued as many search calls as pages were served, of which
\* only the last had no cursor, and a session whose last page had no cursor
\* is finished as soon as that page's work is done.
C8_ExactlyNSearchCalls ==
  \A s \in Sessions :
    InLoop(s) =>
      LET sc == SearchCallsOf(s)
          n == Len(served[s])
      IN /\ \A i \in sc : calls[s][i].page = 1 => calls[s][i].pageToken = NoToken
         /\ Cardinality(sc) <= 1 + Cardinality(WithCursor(served[s]))
         /\ Succeeded(s) =>
              /\ Cardinality(sc) = n
              /\ WithCursor(served[s]) = 1..(n - 1)
              /\ EndedNormally(s)
         /\ (n >= 1 /\ served[s][n].nextPageToken = NoToken /\ ~Failed(s)
               /\ pc[s] # "awaitDetails") => Succeeded(s)

\* C8 witness: a batch fetch of two pages that succeeded
C8_Witness ==
  \E s \in Sessions :
    /\ Fetching(s) /\ Succeeded(s)
    /\ Len(served[s]) = 2
    /\ served[s][1].nextPageToken # NoToken
    /\ Cardinality(SearchCallsOf(s)) = 2

\* The fields only a detail record has
DetailOnlyFields == {"duration", "viewCount", "likeCount", "commentCount", "tags"}
Range(seq) == {seq[i] : i \in 1..Len(seq)}

\* C9: on a successful fetch with details enabled every item of every
\* search page is delivered exactly once: with its detail fields when the
\* page's detail batch has its id, as the search item alone when the batch
\* omits it; nothing else is delivered.
C9_MergeComplete ==
  \A s \in Sessions :
    (Succeeded(s) /\ InLoop(s) /\ opts[s].includeDetails) =>
      LET out == Delivered(s)
      IN /\ Len(out) = Len(ServedItems(served[s]))
         /\ \A k \in 1..Len(served[s]) : \A i \in 1..Len(served[s][k].items) :
              LET item == served[s][k].items[i]
                  v == item.id.videoId
                  hits == {j \in 1..Len(out) : OutId(out[j]) = v}
              IN /\ Cardinality(hits) = 1
                 /\ \A j \in hits :
                      /\ out[j].snippet = item.snippet
                      /\ IF v \in Range(served[s][k].details)
                         THEN /\ DetailOnlyFields \subseteq DOMAIN out[j]
                              /\ out[j].viewCount = Field("viewCount", v)
                              /\ out[j].duration = Field("duration", v)
                         ELSE /\ DetailOnlyFields \cap DOMAIN out[j] = {}
                              /\ out[j] = item

\* C9 witness: a successful fetch with a page of two items whose detail
\* batch has one of them and omits the other
C9_Witness ==
  \E s \in Sessions :
    /\ Succeeded(s) /\ InLoop(s)
    /\ \E k \in 1..Len(served[s]) :
         /\ Len(served[s][k].items) = 2
         /\ Len(served[s][k].details) = 1
    /\ Len(Delivered(s)) >= 2

\* C10: on a successful streaming run totalVideos of the complete event is
\* the number of video events written, which is the sum of the item counts
\* of the search pages; in batch mode the returned array has that length.
C10_TotalIsSumOfPages ==
  \A s \in Sessions :
    (Succeeded(s) /\ InLoop(s)) =>
      LET total == Len(ServedItems(served[s]))
          ev == res[s].events
      IN IF route[s] = "stream"
         THEN /\ ev[Len(ev)].type = "complete"
              /\ ev[Len(ev)].totalVideos = total
              /\ Cardinality(EventsOfType(s, {"video"})) = total
         ELSE /\ res[s].body.kind = "array"
              /\ Len(res[s].body.videos) = total

\* C10 witness: a successful streaming run of two pages with 2 and 1
\* items, so that totalVideos is 3
C10_Witness ==
  \E s \in Sessions :
    /\ Streaming(s) /\ Succeeded(s)
    /\ Len(served[s]) = 2
    /\ Len(served[s][1].items) = 2
    /\ Len(served[s][2].items) = 1
    /\ res[s].events[Len(res[s].events)].totalVideos = 3

\* ------------------------------------------- claims about getChannelId

\* The input is a string of the canonical shape: UC and 24 characters
CanonicalShaped(str) ==
  Len(str) = CanonicalLen /\ str[1] = "U" /\ str[2] = "C"
\* A direct call of getChannelId has returned or thrown
Resolved(s) == route[s] = "resolver" /\ pc[s] = "done"
\* A direct call of getChannelId is past its synchronous part
Called(s) == route[s] = "resolver"

\* C11: for every input that starts with UC and has length 24, getChannelId
\* returns the input unchanged and issues no upstream call; two calls with
\* the same such input both return it, each with no upstream call.
C11_CanonicalIdReturnedUnchanged ==
  /\ \A s \in Sessions :
       (Called(s) /\ channelInput[s].defined /\ CanonicalShaped(channelInput[s].str)) =>
         /\ Resolved(s)
         /\ failure[s] = NoError
         /\ channelId[s] = channelInput[s].str
         /\ calls[s] = <<>>
  /\ \A s, t \in Sessions :
       (/\ Resolved(s) /\ Resolved(t)
        /\ channelInput[s] = channelInput[t]
        /\ channelInput[s].defined /\ CanonicalShaped(channelInput[s].str)) =>
         /\ channelId[s] = channelId[t]
         /\ failure[s] = failure[t]
         /\ calls[s] = <<>> /\ calls[t] = <<>>

\* Both calls with the same canonical-shaped id have returned it
C11_Witness ==
  /\ \A s \in Sessions : Resolved(s) /\ channelId[s] = CANONICAL_ID /\ calls[s] = <<>>
  /\ channelInput[1] = StrInput(CANONICAL_ID)
  /\ channelInput[2] = StrInput(CANONICAL_ID)

\* The first youtube.com/channel/ of str is followed by a canonical-shaped
\* id (24 characters, UC first, none of them ? or /) and then by nothing,
\* by a query string or by a further path
CarriedIdStart(str) == IndexOf(str, STR_CHANNEL_URL) + Len(STR_CHANNEL_URL)
CarriedId(str) == SubSeq(str, CarriedIdStart(str), CarriedIdStart(str) + CanonicalLen - 1)
CarriesCanonicalId(str) ==
  /\ Includes(str, STR_CHANNEL_URL)
  /\ Len(str) >= CarriedIdStart(str) + CanonicalLen - 1
  /\ CanonicalShaped(CarriedId(str))
  /\ \A i \in 1..CanonicalLen : CarriedId(str)[i] \notin {"?", "/"}
  /\ \/ Len(str) = CarriedIdStart(str) + CanonicalLen - 1
     \/ str[CarriedIdStart(str) + CanonicalLen] \in {"?", "/"}

\* C12: for every URL whose youtube.com/channel/ is followed by a
\* canonical-shaped id, with or without a ?query or a further /path after
\* it, getChannelId returns exactly that id and issues no upstream call.
C12_ChannelUrlIdExtracted ==
  \A s \in Sessions :
    (Called(s) /\ channelInput[s].defined /\ CarriesCanonicalId(channelInput[s].str)) =>
      /\ Resolved(s)
      /\ failure[s] = NoError
      /\ channelId[s] = CarriedId(channelInput[s].str)
      /\ calls[s] = <<>>

\* The id of a channel URL with a path and a query string has been returned
C12_Witness ==
  /\ channelInput[1] =
       StrInput(URL_SCHEME \o STR_CHANNEL_URL \o CANONICAL_ID \o PATH_SUFFIX \o QUERY_SUFFIX)
  /\ Resolved(1)
  /\ channelId[1] = CANONICAL_ID
  /\ calls[1] = <<>>

\* C13: every string input that is neither a canonical-shaped id nor a
\* /channel/ URL carrying one makes getChannelId issue exactly one channel
\* search call (limit 1), and the call returns the id of the first result
\* or fails with the not-found error when there is none; in particular a
\* /channel/ URL whose path component has the wrong length is searched for.
C13_OtherInputsSearchOnce ==
  \A s \in Sessions :
    (/\ Called(s)
     /\ channelInput[s].defined
     /\ ~CanonicalShaped(channelInput[s].str)
     /\ ~CarriesCanonicalId(channelInput[s].str)) =>
      /\ Len(calls[s]) = 1
      /\ calls[s][1].api = "search.list"
      /\ calls[s][1].type = "channel"
      /\ calls[s][1].maxResults = 1
      /\ Resolved(s) =>
           /\ Len(served[s]) = 1
           /\ served[s][1].kind = "found" =>
                failure[s] = NoError /\ channelId[s] = served[s][1].channelId
           /\ served[s][1].kind = "empty" =>
                failure[s] = Err("Channel not found", channelInput[s].str)

\* ------------------------------------------------ claims about sessions

\* An upstream call of the fetch loop (a search page or a detail batch)
\* has failed in the session
UpstreamFailed(s) ==
  /\ route[s] \in {"videos", "stream"}
  /\ InLoop(s)
  /\ failure[s] \in {UpstreamError(m) : m \in UpstreamMessages}

IdPlace(video) == DOMAIN video.id
\* Where a delivered record carries a publishedAt
PublishedAtPlaces(video) ==
  {<<"publishedAt">> : x \in {"publishedAt"} \cap DOMAIN video}
  \cup {<<"snippet", "publishedAt">> : x \in {"publishedAt"} \cap DOMAIN video.snippet}

\* C15: every video delivered to a consumer, matched in its page's detail
\* batch or not, has a non-empty video id and a publishedAt, each in the
\* same place of the record as in every other delivered video; the merge
\* of a page with a detail answer that omits ids gives a record for every
\* item of the page.
C15_UniformVideoRecords ==
  \A s \in Sessions :
    /\ \A i, j \in 1..Len(Delivered(s)) :
         /\ OutId(Delivered(s)[i]) >= 1
         /\ IdPlace(Delivered(s)[i]) = IdPlace(Delivered(s)[j])
         /\ PublishedAtPlaces(Delivered(s)[i]) \cap PublishedAtPlaces(Delivered(s)[j]) # {}
    /\ InLoop(s) =>
         \A got \in SubSeqs(VideoIds(pageResponse[s].items)) :
           Len(MergeDetails(pageResponse[s].items,
                            [i \in 1..Len(got) |->
                               DetailRecord(DetailItem(got[i], HasTags(got[i]), TRUE))]))
             = Len(pageResponse[s].items)

\* The served pages whose videos the loop has passed on: all of them but a
\* page whose detail batch is awaited or has failed
PassedOn(s) ==
  IF \/ pc[s] = "awaitDetails"
     \/ Failed(s) /\ calls[s] # <<>> /\ calls[s][Len(calls[s])].api = "videos.list"
  THEN SubSeq(served[s], 1, Len(served[s]) - 1)
  ELSE served[s]
\* The ids of the delivered videos, in the order delivered
DeliveredIds(s) == [i \in 1..Len(Delivered(s)) |-> OutId(Delivered(s)[i])]

\* C16: the array a batch session returns, and the videos of the video
\* events of a streaming session in the order written, are the items of
\* the search pages in the order fetched, each page's items in the order
\* the upstream returned them, whatever the order of the detail batch.
C16_DeliveredInUpstreamOrder ==
  \A s \in Sessions :
    /\ (route[s] = "stream" /\ InLoop(s)) =>
         DeliveredIds(s) = VideoIds(ServedItems(PassedOn(s)))
    /\ (route[s] = "videos" /\ Succeeded(s) /\ InLoop(s)) =>
         /\ res[s].body.kind = "array"
         /\ DeliveredIds(s) = VideoIds(ServedItems(served[s]))

\* A batch session has returned two pages of two videos each, the detail
\* batch of the first page answered last first
C16_Witness ==
  \E s \in Sessions :
    /\ route[s] = "videos" /\ Succeeded(s)
    /\ Len(served[s]) = 2
    /\ served[s][1].details = <<2, 1>>
    /\ DeliveredIds(s) = <<1, 2, 3, 4>>

\* Everything a session's handlers keep: the request, the locals of the
\* route, of the entry point and of the fetch loop, and the response
SessionState(s) ==
  <<route[s], channelInput[s], pc[s], opts[s], channelId[s], channelInfo[s],
    allVideos[s], nextPageToken[s], pageCount[s], pageResponse[s], videoCount[s],
    res[s], promise[s], sinkLog[s], calls[s], failure[s]>>
\* The count values of the session's video events, in the order written
CountsOf(s) == [i \in 1..Len(VideoEventsOf(s)) |-> VideoEventsOf(s)[i].count]

\* C17: with two sessions interleaved at every await, each step reads and
\* writes the state of one session only (cursor, page number, accumulator,
\* counter, response), so a failure in one session neither ends nor alters
\* the other; and the count values of each streaming session's video
\* events are 1, 2, 3, ... over its own video events.
C17_SessionsIndependent ==
  [][/\ \E s \in Sessions : \A t \in Sessions \ {s} : SessionState(t)' = SessionState(t)
     /\ \A s \in Sessions :
          /\ CountsOf(s)' = [i \in 1..Len(VideoEventsOf(s)') |-> i]
          /\ Len(VideoEventsOf(s)') = videoCount'[s]]_vars

\* Session 1 has failed on the search of its second page while session 2
\* is between its two pages; each has written two video events, with its
\* own counts 1, 2
C17_Witness ==
  /\ route[1] = "stream" /\ Failed(1) /\ pageCount[1] = 2
  /\ CountsOf(1) = <<1, 2>>
  /\ route[2] = "stream" /\ pc[2] = "awaitDelay" /\ ~Failed(2)
  /\ CountsOf(2) = <<1, 2>>

\* C18: every session whose fetch loop waits for a search page or a detail
\* batch eventually reaches a terminal outcome, also when the upstream
\* never answers the call: the call times out and the session is aborted.
C18_EverySessionEnds ==
  \A s \in Sessions : (pc[s] \in {"awaitSearch", "awaitDetails"}) ~> Done(s)

\* ------------------------------------------------- claims about options

\* A direct call of getAllChannelVideos
Direct(s) == route[s] = "fetcher"
\* The page sizes the upstream accepts
ValidPageSizes == 0..PageCap

\* C19: whatever maxResults the caller passes, the maxResults of every
\* search call sent upstream is at most 50 and a valid page size; with
\* maxResults omitted it is 50.
C19_PageSizeValid ==
  \A s \in Sessions :
    \A i \in SearchCallsOf(s) :
      /\ calls[s][i].maxResults <= PageCap
      /\ calls[s][i].maxResults \in ValidPageSizes
      /\ (Direct(s) /\ opts[s] = DefaultOptions) => calls[s][i].maxResults = PageCap

\* ---------------------------------------------- claims about the records

\* The delivered record took the fields of a detail record
Matched(video) == "string" \in DOMAIN video.id
\* The sessions that fetch with details enabled
DetailsEnabled(s) == route[s] \in {"videos", "stream"} /\ InLoop(s) /\ opts[s].includeDetails

\* C20 as stated: in every record delivered with details enabled tags is
\* present and is a sequence, the empty one when the upstream's detail
\* item has no tags field.
C20_TagsAlwaysSequence ==
  \A s \in Sessions :
    DetailsEnabled(s) =>
      \A i \in 1..Len(Delivered(s)) :
        LET video == Delivered(s)[i]
        IN /\ "tags" \in DOMAIN video
           /\ DOMAIN video.tags = 1..Len(video.tags)
           /\ ~HasTags(OutId(video)) => video.tags = <<>>

\* C20 amended: in every delivered record whose id the page's detail batch
\* answered, tags is present and is a sequence: the empty one when the
\* upstream's detail item has no tags field, the item's tags otherwise.  (A
\* record whose id the batch omitted is the search item alone, without tags.)
C20_MatchedTagsSequence ==
  \A s \in Sessions :
    DetailsEnabled(s) =>
      \A i \in 1..Len(Delivered(s)) :
        LET video == Delivered(s)[i]
        IN Matched(video) =>
             /\ "tags" \in DOMAIN video
             /\ DOMAIN video.tags = 1..Len(video.tags)
             /\ video.tags = IF HasTags(OutId(video))
                             THEN <<Field("tag", OutId(video))>> ELSE <<>>

\* A video whose detail item has no tags field has been delivered with its
\* detail fields and an empty tags
C20_Witness ==
  \E s \in Sessions :
    /\ DetailsEnabled(s)
    /\ \E i \in 1..Len(Delivered(s)) :
         /\ Matched(Delivered(s)[i])
         /\ ~HasTags(OutId(Delivered(s)[i]))
         /\ Delivered(s)[i].tags = <<>>

\* ------------------------------------- more claims about getChannelId

\* The component of str that follows the first marker, up to the first ?
\* or / after it
ComponentAfter(str, marker) ==
  SplitFirst(SplitFirst(SubSeq(str, IndexOf(str, marker) + Len(marker), Len(str)),
                        STR_QMARK), STR_SLASH)
\* The input matches none of the URL forms and is not canonical-shaped
RawName(str) ==
  /\ ~CanonicalShaped(str)
  /\ ~Includes(str, STR_CHANNEL_URL)
  /\ ~Includes(str, STR_C_URL)
  /\ ~Includes(str, STR_AT_URL)
\* The input is a URL of the custom-name form or of the handle form only
CustomNameUrl(str) ==
  ~CanonicalShaped(str) /\ ~Includes(str, STR_CHANNEL_URL) /\ Includes(str, STR_C_URL)
HandleUrl(str) ==
  /\ ~CanonicalShaped(str) /\ ~Includes(str, STR_CHANNEL_URL)
  /\ ~Includes(str, STR_C_URL) /\ Includes(str, STR_AT_URL)

\* C21: the query of the channel search call is the name that follows
\* youtube.com/c/, or the handle that follows youtube.com/@, without what
\* follows a ? or a further /; for an input of no URL form that is not
\* canonical-shaped it is the input itself.
C21_SearchQuery ==
  \A s \in Sessions :
    (Called(s) /\ channelInput[s].defined) =>
      LET str == channelInput[s].str
      IN /\ CustomNameUrl(str) =>
              Len(calls[s]) = 1 /\ calls[s][1].q = ComponentAfter(str, STR_C_URL)
         /\ HandleUrl(str) =>
              Len(calls[s]) = 1 /\ calls[s][1].q = ComponentAfter(str, STR_AT_URL)
         /\ RawName(str) =>
              Len(calls[s]) = 1 /\ calls[s][1].q = str

\* ------------------------------------------- claims about the fetch loop

\* The positions of the session's events that are progress notifications
\* of the fetch loop
PageProgressEvents(s) ==
  {i \in 1..Len(res[s].events) :
     res[s].events[i].type = "progress" /\ "page" \in DOMAIN res[s].events[i]}
\* The number of items of the first k served pages
TotalThrough(s, k) == Len(ServedItems(SubSeq(served[s], 1, k)))

\* C22: in a streaming session every page fetched, the last one included,
\* is reported by a progress notification that carries the page's number
\* and the running total with that page's items in it.
C22_ProgressReportsCompletedPage ==
  \A s \in Sessions :
    (Streaming(s) /\ Succeeded(s) /\ InLoop(s)) =>
      \A k \in 1..Len(served[s]) :
        \E i \in PageProgressEvents(s) :
          /\ res[s].events[i].page = k
          /\ res[s].events[i].totalFetched = TotalThrough(s, k)

\* The upstream call a session is suspended on, by the await it is at
AwaitedApi(s) ==
  CASE pc[s] \in {"awaitChannelId", "awaitSearch"} -> "search.list"
    [] pc[s] = "awaitChannelInfo" -> "channels.list"
    [] pc[s] = "awaitDetails" -> "videos.list"
    [] OTHER -> "none"
\* The session is in one of the two routes
InSession(s) == route[s] \in {"videos", "stream"}

\* C23: a session has at most one upstream call in flight: it is suspended
\* on the last call it issued or on none, and every step issues at most
\* one call.  The search call of page k + 1 is issued after page k was
\* answered, after the detail call of page k when that page had items, and
\* carries the cursor page k returned.
C23_OneCallAtATime ==
  [][\A s \in Sessions :
       InSession(s)' =>
         /\ Len(calls'[s]) \in {Len(calls[s]), Len(calls[s]) + 1}
         /\ SubSeq(calls'[s], 1, Len(calls[s])) = calls[s]
         /\ AwaitedApi(s)' # "none" =>
              /\ calls'[s] # <<>>
              /\ calls'[s][Len(calls'[s])].api = AwaitedApi(s)'
         /\ \A i \in SearchCallsOf(s)' :
              LET call == calls'[s][i]
                  k == call.page - 1
              IN /\ \A j \in SearchCallsOf(s)' : j < i <=> calls'[s][j].page < call.page
                 /\ IF k = 0
                    THEN call.pageToken = NoToken
                    ELSE /\ Len(served'[s]) >= k
                         /\ served'[s][k].nextPageToken # NoToken
                         /\ call.pageToken = served'[s][k].nextPageToken
                         /\ (served'[s][k].items # <<>> /\ opts'[s].includeDetails) =>
                              \E j \in DetailCallsOf(s)' :
                                j < i /\ calls'[s][j].page = k]_vars

\* A session waits for the search of its second page, sent with the cursor
\* of the first page, after the detail call of the first page
C23_Witness ==
  \E s \in Sessions :
    /\ InSession(s)
    /\ pc[s] = "awaitSearch"
    /\ pageCount[s] = 2
    /\ Len(calls[s]) = 4
    /\ calls[s][3].api = "videos.list"
    /\ calls[s][4].pageToken = served[s][1].nextPageToken

\* The detail calls the session issued for its page k
DetailCallsForPage(s, k) == {j \in DetailCallsOf(s) : calls[s][j].page = k}

\* C24: with details enabled, a search page that returned at least one item
\* has exactly one detail call, and the ids of that call are the ids of the
\* page's items in order, at most fifty; a session of streamYoutubeVideos
\* runs its loop with details enabled.
C24_OneDetailCallPerPage ==
  \A s \in Sessions :
    /\ (Streaming(s) /\ InLoop(s)) => opts[s].includeDetails
    /\ (InSession(s) /\ InLoop(s) /\ opts[s].includeDetails) =>
         \A k \in 1..Len(served[s]) :
           served[s][k].items # <<>> =>
             /\ Cardinality(DetailCallsForPage(s, k)) = 1
             /\ \A j \in DetailCallsForPage(s, k) :
                  /\ Len(calls[s][j].id) = Len(served[s][k].items)
                  /\ \A i \in 1..Len(served[s][k].items) :
                       calls[s][j].id[i] = served[s][k].items[i].id.videoId
                  /\ Len(calls[s][j].id) <= PageCap

\* A streaming session waits for the detail call of its second page, a page
\* of two items, after the detail call of its first page
C24_Witness ==
  \E s \in Sessions :
    /\ Streaming(s)
    /\ pc[s] = "awaitDetails"
    /\ Len(served[s]) = 2
    /\ Len(served[s][2].items) = 2
    /\ Cardinality(DetailCallsOf(s)) = 2

\* The served pages whose iteration ran to its end
CompletedPages(s) ==
  {k \in 1..Len(served[s]) : k < pageCount[s] \/ (pc[s] \in {"awaitDelay", "done"} /\ ~Failed(s))}

\* C25: the pause between pages has been taken once for every page that
\* returned a cursor and whose iteration ran to its end, and for no other:
\* none after a page without a cursor, none after a failed call.  While the
\* pause runs the page is accumulated (and, when streaming, delivered) and
\* the next search is not yet issued.  A fetch of N pages that succeeded
\* took N - 1 pauses.
C25_DelayBetweenPages ==
  \A s \in Sessions :
    (InSession(s) /\ InLoop(s)) =>
      /\ delays[s] = Cardinality(WithCursor(served[s]) \cap CompletedPages(s))
      /\ pc[s] = "awaitDelay" =>
           /\ ~Failed(s)
           /\ served[s][Len(served[s])].nextPageToken # NoToken
           /\ Len(allVideos[s]) = Len(ServedItems(served[s]))
           /\ Streaming(s) => Len(Delivered(s)) = Len(ServedItems(served[s]))
           /\ Cardinality(SearchCallsOf(s)) = Len(served[s])
      /\ Succeeded(s) => delays[s] = Len(served[s]) - 1

\* A streaming session of two pages succeeded after one pause
C25_Witness ==
  \E s \in Sessions :
    /\ Streaming(s) /\ Succeeded(s)
    /\ Len(served[s]) = 2
    /\ delays[s] = 1

\* --------------------------------------------- claims about missing fields

\* The last upstream call of the session was answered with an item, and
\* that call is the channel-info call or a detail call
ItemAnswered(s) ==
  /\ calls[s] # <<>>
  /\ calls[s][Len(calls[s])].api \in {"channels.list", "videos.list"}
  /\ pc[s] \notin {"awaitChannelInfo", "awaitDetails"}
  /\ failure[s].message.text \notin UpstreamMessages \cup {"Channel not found"}

\* C26: a detail item or a channel item without thumbnails does not abort
\* the fetch: a session whose channel-info or detail call was answered with
\* items has not failed.
C26_MissingFieldTolerated ==
  \A s \in Sessions : (InSession(s) /\ ItemAnswered(s)) => ~Failed(s)

\* ------------------------------------- claims about the entry points' calls

\* The channel-search calls and the channel-info calls the session issued
ChannelSearchCallsOf(s) ==
  {i \in 1..Len(calls[s]) : calls[s][i].api = "search.list" /\ calls[s][i].type = "channel"}
ChannelInfoCallsOf(s) == {i \in 1..Len(calls[s]) : calls[s][i].api = "channels.list"}
\* getChannelId returned an id to the entry point
IdResolved(s) == channelId[s] # <<>>
\* getChannelInfo returned the channel's record to the entry point
InfoReturned(s) == channelInfo[s].id # <<>>

\* C27: the calls of a session are at most one channel-search call, first;
\* then the channel-info call, exactly one once the id is resolved and none
\* before; then the video search and detail calls, none of them before the
\* channel-info call returned the channel's record.
C27_CallOrder ==
  \A s \in Sessions :
    InSession(s) =>
      /\ ChannelSearchCallsOf(s) \subseteq {1}
      /\ ChannelInfoCallsOf(s) =
           IF IdResolved(s) THEN {Cardinality(ChannelSearchCallsOf(s)) + 1} ELSE {}
      /\ \A i \in ChannelInfoCallsOf(s) : calls[s][i].id = channelId[s]
      /\ \A i \in SearchCallsOf(s) \cup DetailCallsOf(s) :
           /\ InfoReturned(s)
           /\ channelInfo[s].id = channelId[s]
           /\ \E j \in ChannelInfoCallsOf(s) : j < i
      /\ (IdResolved(s) /\ pc[s] # "awaitChannelInfo" /\ SearchCallsOf(s) = {}) => Failed(s)

\* A batch session resolved a name with a channel search, asked for the
\* channel info, then searched a page and asked for its details
C27_Witness ==
  \E s \in Sessions :
    /\ Fetching(s)
    /\ Len(calls[s]) = 4
    /\ ChannelSearchCallsOf(s) = {1}
    /\ ChannelInfoCallsOf(s) = {2}
    /\ SearchCallsOf(s) = {3}
    /\ DetailCallsOf(s) = {4}

\* The channel-info call was the session's last, and the session failed
\* with the not-found error
InfoNotFound(s) ==
  /\ calls[s] # <<>>
  /\ calls[s][Len(calls[s])].api = "channels.list"
  /\ failure[s].message = Text("Channel not found", channelId[s])

\* C28: getChannelInfo fails with the not-found error of the id when the
\* channel-info call returns no item, and a session that failed so is
\* over with no video search call, no detail call and no video delivered;
\* a streaming session has written the error event, last.
C28_ChannelInfoNotFound ==
  \A s \in Sessions :
    InSession(s) =>
      /\ pc[s] = "awaitChannelInfo" =>
           LET got == GetChannelInfo(channelId[s], [kind |-> "empty"])
           IN /\ ~got.ok
              /\ got.error.message = Text("Channel not found", channelId[s])
      /\ InfoNotFound(s) =>
           /\ Done(s)
           /\ SearchCallsOf(s) = {}
           /\ DetailCallsOf(s) = {}
           /\ Delivered(s) = <<>>
           /\ allVideos[s] = <<>>
           /\ Streaming(s) =>
                /\ EventsOfType(s, {"error"}) = {Len(res[s].events)}
                /\ EventsOfType(s, {"video", "complete"}) = {}
                /\ sinkLog[s][Len(sinkLog[s])] = "onError"

\* A streaming session whose channel-info call found no channel
C28_Witness ==
  \E s \in Sessions : Streaming(s) /\ InfoNotFound(s) /\ Done(s)

\* The positions of the session's channel_ready events
ChannelReadyEvents(s) ==
  {i \in 1..Len(res[s].events) :
     /\ res[s].events[i].type = "progress"
     /\ res[s].events[i].stage = "channel_ready"}

\* C29: the channelInfo of the complete event of a streaming session is the
\* channelInfo of the session's one channel_ready event, and both are what
\* getChannelInfo returned for the session's one channel-info call; once
\* returned, no step changes it.
C29_ChannelInfoUnchanged ==
  [][\A s \in Sessions :
       /\ InfoReturned(s) => channelInfo'[s] = channelInfo[s]
       /\ Streaming(s)' =>
            /\ Cardinality(ChannelReadyEvents(s)') = IF InfoReturned(s)' THEN 1 ELSE 0
            /\ \A i \in ChannelReadyEvents(s)' :
                 /\ res'[s].events[i].channelInfo = channelInfo'[s]
                 /\ res'[s].events[i].channelInfo =
                      GetChannelInfo(channelId'[s], [kind |-> "found"]).value
                 /\ Cardinality(ChannelInfoCallsOf(s)') = 1
            /\ \A j \in EventsOfType(s, {"complete"})' :
                 /\ ChannelReadyEvents(s)' # {}
                 /\ \A i \in ChannelReadyEvents(s)' :
                      res'[s].events[j].channelInfo = res'[s].events[i].channelInfo]_vars

\* A streaming session of two pages wrote its complete event
C29_Witness ==
  \E s \in Sessions :
    /\ Streaming(s) /\ Succeeded(s)
    /\ Len(served[s]) = 2
    /\ EventsOfType(s, {"complete"}) # {}
    /\ ChannelReadyEvents(s) # {}

\* The messages the session's failing step can have thrown, by the call
\* the session made last: a rejection of the upstream, the not-found error
\* of the resolver or of getChannelInfo, or a TypeError
PossibleMessages(s) ==
  LET upstream == {UpstreamError(m).message : m \in UpstreamMessages}
      last == calls[s][Len(calls[s])]
  IN IF calls[s] = <<>> THEN {TypeError.message}
     ELSE IF last.api = "search.list" /\ last.type = "channel"
     THEN upstream \cup {Text("Channel not found", channelInput[s].str)}
     ELSE IF last.api = "channels.list"
     THEN upstream \cup {Text("Channel not found", channelId[s]), TypeError.message}
     ELSE IF last.api = "videos.list"
     THEN upstream \cup {TypeError.message}
     ELSE upstream

\* C30: a streaming session that failed has written one error event, and
\* its message is the message of the error that was thrown, whichever call
\* failed; a session that has not failed has written none.
C30_ErrorMessagePreserved ==
  \A s \in Sessions :
    Streaming(s) =>
      IF Failed(s)
      THEN /\ EventsOfType(s, {"error"}) = {Len(res[s].events)}
           /\ res[s].events[Len(res[s].events)] =
                [type |-> "error", message |-> failure[s].message]
           /\ failure[s].message \in PossibleMessages(s)
      ELSE EventsOfType(s, {"error"}) = {}

\* A streaming session failed at the detail call of its second page with a
\* rejection of the upstream
C30_Witness ==
  \E s \in Sessions :
    /\ Streaming(s) /\ Failed(s)
    /\ Len(served[s]) = 2
    /\ calls[s][Len(calls[s])].api = "videos.list"
    /\ failure[s].message.text \in UpstreamMessages
    /\ EventsOfType(s, {"error"}) # {}

\* ------------------------------------------ more claims about the options

\* C31: whatever order the caller passes, the order of every search call
\* sent upstream is one of date, rating, relevance, title, videoCount and
\* viewCount.
C31_OrderValidated ==
  \A s \in Sessions :
    \A i \in SearchCallsOf(s) : calls[s][i].order \in KnownOrders

\* ------------------------------------- claims about the stream's progress

\* The stages of the session's progress events, in the order written
ProgressEventsOf(s) == SelectSeq(res[s].events, LAMBDA e : e.type = "progress")
StagesOf(s) == [i \in 1..Len(ProgressEventsOf(s)) |-> ProgressEventsOf(s)[i].stage]
\* The stages streamYoutubeVideos goes through before the loop
StageOrder == <<"channel_lookup", "channel_info", "channel_ready", "videos_start">>
\* The positions of the session's events of stage
EventsOfStage(s, stage) ==
  {i \in 1..Len(res[s].events) :
     res[s].events[i].type = "progress" /\ res[s].events[i].stage = stage}

\* C32: the progress events of a streaming session are channel_lookup,
\* channel_info, channel_ready and videos_start in this order, each once at
\* most and none without those before it, then videos_progress only; every
\* video event comes after the videos_start event.
C32_StageOrder ==
  \A s \in Sessions :
    Streaming(s) =>
      /\ Len(StagesOf(s)) >= 1
      /\ \A i \in 1..Len(StagesOf(s)) :
           StagesOf(s)[i] = IF i <= Len(StageOrder) THEN StageOrder[i] ELSE "videos_progress"
      /\ \A v \in EventsOfType(s, {"video"}) :
           \E i \in EventsOfStage(s, "videos_start") : i < v

\* A streaming session wrote the four stages, the progress of two pages and
\* a video
C32_Witness ==
  \E s \in Sessions :
    /\ Streaming(s)
    /\ Len(StagesOf(s)) = Len(StageOrder) + 2
    /\ EventsOfType(s, {"video"}) # {}

\* The number of video events written before the event at position i
VideosBefore(s, i) == Cardinality({v \in EventsOfType(s, {"video"}) : v < i})

\* C33: a streaming session has written one progress notification of the
\* loop for each search call it issued.  The notification of page k has
\* page k, the number of items of pages 1..k-1 as totalFetched, and hasMore
\* true exactly when k > 1; it is written after the videos of the pages
\* before and ahead of those of page k.
C33_ProgressBeforeEachSearch ==
  \A s \in Sessions :
    (Streaming(s) /\ InLoop(s)) =>
      /\ Cardinality(PageProgressEvents(s)) = Cardinality(SearchCallsOf(s))
      /\ \A k \in 1..pageCount[s] :
           /\ \E c \in SearchCallsOf(s) : calls[s][c].page = k
           /\ Cardinality({i \in PageProgressEvents(s) : res[s].events[i].page = k}) = 1
      /\ \A i \in PageProgressEvents(s) :
           LET e == res[s].events[i]
           IN /\ e.page \in 1..pageCount[s]
              /\ e.totalFetched = TotalThrough(s, e.page - 1)
              /\ e.hasMore = (e.page > 1)
              /\ VideosBefore(s, i) = e.totalFetched

\* A streaming session wrote the progress of its second page, with the
\* items of the first in its total
C33_Witness ==
  \E s \in Sessions :
    /\ Streaming(s)
    /\ \E i \in PageProgressEvents(s) :
         /\ res[s].events[i].page = 2
         /\ res[s].events[i].totalFetched = 2
         /\ res[s].events[i].hasMore

\* ------------------------------------- claims about the stream's delivery

\* The position of the progress notification of the session's page k, and
\* the ids of the video events between it and the notification of the next
\* page (or the end of the events)
ProgressOfPage(s, k) == CHOOSE i \in PageProgressEvents(s) : res[s].events[i].page = k
VideoRunOfPage(s, k) ==
  LET last == IF k < pageCount[s] THEN ProgressOfPage(s, k + 1) - 1 ELSE Len(res[s].events)
      run == SelectSeq(SubSeq(res[s].events, ProgressOfPage(s, k) + 1, last),
                       LAMBDA e : e.type = "video")
  IN [i \in 1..Len(run) |-> OutId(run[i].video)]
\* The detail call of the session's last page is awaited or has failed
DetailsOutstanding(s) ==
  \/ pc[s] = "awaitDetails"
  \/ Failed(s) /\ calls[s] # <<>> /\ calls[s][Len(calls[s])].api = "videos.list"

\* C34: in a streaming session the videos delivered are whole pages in page
\* order: the video events between the progress notification of page k and
\* that of page k + 1 are the items of page k in the page's order, and no
\* video event comes before the first notification.  While the detail call
\* of page k is awaited, and after it failed, page k has no video event and
\* exactly the items of pages 1..k-1 are delivered.
C34_PageDeliveredAfterDetails ==
  \A s \in Sessions :
    (Streaming(s) /\ InLoop(s)) =>
      LET n == Len(served[s])
          passed == IF DetailsOutstanding(s) THEN n - 1 ELSE n
      IN /\ Len(Delivered(s)) = TotalThrough(s, passed)
         /\ \A v \in EventsOfType(s, {"video"}) : v > ProgressOfPage(s, 1)
         /\ \A k \in 1..pageCount[s] :
              VideoRunOfPage(s, k) =
                IF k <= passed THEN [i \in 1..Len(served[s][k].items) |->
                                       served[s][k].items[i].id.videoId]
                ELSE <<>>

\* The detail call of the second page of a streaming session failed after
\* the two videos of its first page were delivered
C34_Witness ==
  \E s \in Sessions :
    /\ Streaming(s) /\ Failed(s)
    /\ Len(served[s]) = 2
    /\ served[s][2].items # <<>>
    /\ calls[s][Len(calls[s])].api = "videos.list"
    /\ Len(Delivered(s)) = 2

\* ------------------------------------------------ claims about empty pages

\* The served pages without items
EmptyPages(s) == {k \in 1..Len(served[s]) : served[s][k].items = <<>>}

\* C35: a search page without items has no detail call and adds nothing to
\* the accumulator or to the videos delivered, and its cursor is followed:
\* with a cursor the loop pauses and then searches the next page with it,
\* without one the fetch ends normally.
C35_EmptyPage ==
  \A s \in Sessions :
    (InSession(s) /\ InLoop(s)) =>
      \A k \in EmptyPages(s) :
        /\ DetailCallsForPage(s, k) = {}
        /\ k = pageCount[s] =>
             /\ Len(allVideos[s]) = TotalThrough(s, k - 1)
             /\ (Streaming(s) \/ Done(s)) => Len(Delivered(s)) = TotalThrough(s, k - 1)
             /\ IF served[s][k].nextPageToken # NoToken
                THEN pc[s] = "awaitDelay" /\ ~Failed(s)
                ELSE Succeeded(s) /\ EndedNormally(s)
        /\ k < pageCount[s] =>
             /\ served[s][k].nextPageToken # NoToken
             /\ \E c \in SearchCallsOf(s) :
                  /\ calls[s][c].page = k + 1
                  /\ calls[s][c].pageToken = served[s][k].nextPageToken

\* A batch session whose first page had no items and a cursor searches the
\* second page
C35_Witness ==
  \E s \in Sessions :
    /\ Fetching(s)
    /\ 1 \in EmptyPages(s)
    /\ pageCount[s] = 2
    /\ pc[s] = "awaitSearch"

\* ------------------------------------------------- sinks that throw

\* What a handler passed to streamYoutubeVideos throws
SinkError == Err("sink failed", <<>>)

\* Mutant of StreamProgressThrows: the exception of onProgress is dropped
\* and the iteration goes on to its search call
StreamProgressThrowsIgnored(s) ==
  /\ route[s] = "stream"
  /\ pc[s] = "awaitDelay"
  /\ pageCount' = [pageCount EXCEPT ![s] = @ + 1]
  /\ calls' = [calls EXCEPT ![s] =
                 Append(@, SearchCall(channelId[s], opts[s], nextPageToken[s], pageCount[s] + 1))]
  /\ failure' = [failure EXCEPT ![s] = SinkError]
  /\ pc' = [pc EXCEPT ![s] = "awaitSearch"]
  /\ UNCHANGED <<client, admitted, route, channelInput, opts, channelId, channelInfo,
                 allVideos, nextPageToken, pageResponse, videoCount, res, promise,
                 sinkLog, closePage, served, delays>>

\* this.delay(100) elapses and the onProgress of the next iteration throws:
\* pageCount++ has run, the search call has not; the catch of
\* streamAllChannelVideos rethrows and that of streamYoutubeVideos calls
\* onError
StreamProgressThrows(s) ==
  /\ route[s] = "stream"
  /\ pc[s] = "awaitDelay"
  /\ pageCount' = [pageCount EXCEPT ![s] = @ + 1]
  /\ StreamFails(s, res[s], videoCount[s], <<>>, SinkError)
  /\ UNCHANGED <<client, admitted, route, channelInput, opts, channelId, channelInfo,
                 allVideos, nextPageToken, pageResponse, promise, calls,
                 closePage, served, delays>>

\* The channels.list call settles with the channel and the onProgress of
\* the first iteration throws, after channel_ready and videos_start were
\* notified
StreamFirstProgressThrows(s, answer) ==
  /\ route[s] = "stream"
  /\ pc[s] = "awaitChannelInfo"
  /\ GetChannelInfo(channelId[s], answer).ok
  /\ channelInfo' = [channelInfo EXCEPT ![s] = GetChannelInfo(channelId[s], answer).value]
  /\ opts' = [opts EXCEPT ![s] = EntryOptions]
  /\ allVideos' = [allVideos EXCEPT ![s] = <<>>]
  /\ nextPageToken' = [nextPageToken EXCEPT ![s] = NoToken]
  /\ pageCount' = [pageCount EXCEPT ![s] = 1]
  /\ StreamFails(s, res[s], videoCount[s],
                 <<ChannelReady(GetChannelInfo(channelId[s], answer).value), VideosStart>>,
                 SinkError)
  /\ UNCHANGED <<client, admitted, route, channelInput, channelId, pageResponse, promise,
                 calls, closePage, served, delays>>

\* The videos.list call of a page settles and the onVideo of the page's
\* n-th video throws inside the forEach of onVideos: the page is merged and
\* accumulated, the videos before the n-th are delivered, the cursor is not
\* taken and no delay starts
StreamVideoThrows(s, answer, n) ==
  /\ route[s] = "stream"
  /\ pc[s] = "awaitDetails"
  /\ GetVideoDetails(answer).ok
  /\ n \in 1..Len(pageResponse[s].items)
  /\ LET videos == MergeDetails(pageResponse[s].items, GetVideoDetails(answer).value)
     IN /\ served' = [served EXCEPT ![s] = WithDetails(@, answer)]
        /\ allVideos' = [allVideos EXCEPT ![s] = @ \o videos]
        /\ StreamFails(s, res[s], videoCount[s], OnVideos(SubSeq(videos, 1, n - 1)),
                       SinkError)
  /\ UNCHANGED <<client, admitted, route, channelInput, opts, channelId, channelInfo,
                 nextPageToken, pageCount, pageResponse, promise, calls, closePage,
                 delays>>

\* streamYoutubeVideos called with an onProgress and an onVideo that may
\* throw while streamAllChannelVideos runs
SinkNext ==
  \E s \in Sessions :
    \/ \E input \in ChannelInputs : GetStream(s, input)
    \/ \E answer \in ChannelSearchAnswers : StreamChannelIdSettles(s, answer)
    \/ \E answer \in ChannelsAnswers : StreamChannelInfoSettles(s, answer)
    \/ \E answer \in SearchAnswers(pageCount[s]) : StreamSearchSettles(s, answer)
    \/ \E answer \in DetailAnswers(VideoIds(pageResponse[s].items)) : StreamDetailsSettle(s, answer)
    \/ StreamDelayElapses(s)
    \/ \E answer \in ChannelsAnswers : StreamFirstProgressThrows(s, answer)
    \/ StreamProgressThrows(s)
    \/ \E answer \in DetailAnswers(VideoIds(pageResponse[s].items)) :
         \E n \in 1..MaxItems : StreamVideoThrows(s, answer, n)

SpecSink == Init /\ [][SinkNext]_vars

\* A handler threw in the session
SinkThrew(s) == failure[s] = SinkError

\* C36: when onProgress or onVideo throws while streamAllChannelVideos
\* runs, the session is over: every upstream call it issued was answered
\* before the throw and none follows, onError is called once, last, with
\* the exception, and onComplete is not called.
C36_SinkThrowStopsFetch ==
  \A s \in Sessions :
    SinkThrew(s) =>
      /\ Done(s)
      /\ Cardinality(SearchCallsOf(s)) = Len(served[s])
      /\ \A c \in SearchCallsOf(s) : calls[s][c].page <= Len(served[s])
      /\ Cardinality(DetailCallsOf(s)) = Len(served[s]) - Cardinality(EmptyPages(s))
      /\ Positions(sinkLog[s], LAMBDA h : h = "onError") = {Len(sinkLog[s])}
      /\ Positions(sinkLog[s], LAMBDA h : h = "onComplete") = {}
      /\ res[s].events[Len(res[s].events)] = [type |-> "error", message |-> SinkError.message]
      /\ delays[s] = Cardinality(WithCursor(served[s]) \cap 1..(pageCount[s] - 1))

\* onVideo threw on the second video of the second page of a session
C36_Witness ==
  \E s \in Sessions :
    /\ SinkThrew(s)
    /\ Len(served[s]) = 2
    /\ Len(Delivered(s)) = 3

\* ------------------------------------------------------ the browser client

\* The text of the search box: blank, the title of a video, or a tag
BlankTerm == [field |-> "blank", of |-> 0]
SearchTerms == {BlankTerm, Field("title", 2), Field("tag", 1)}

\* The test of filterVideos: the term is in the video's title (or its
\* description, a text of the snippet like the title) or in one of its tags
Matches(video, term) ==
  \/ video.snippet.title = term
  \/ "tags" \in DOMAIN video /\ \E i \in 1..Len(video.tags) : video.tags[i] = term

\* filterVideos(searchTerm)
FilterVideos(term) ==
  /\ client' = [client EXCEPT
       !.filteredVideos =
          IF term = BlankTerm THEN client.allVideos
          ELSE SelectSeq(client.allVideos, LAMBDA video : Matches(video, term))]
  /\ UNCHANGED <<admitted, route, channelInput, pc, opts, channelId, channelInfo,
                 allVideos, nextPageToken, pageCount, pageResponse, videoCount, res,
                 promise, sinkLog, calls, failure, closePage, served, delays>>

\* The sessions whose EventSource is open
OpenSources == {s \in Sessions : client.source[s] = "open"}

\* Mutant of LoadVideosStream: no test of isStreaming
LoadVideosStreamUnguarded(s, input) ==
  /\ client.source[s] = "none"
  /\ \A q \in Sessions : q < s => client.source[q] # "none"
  /\ client' =
       IF input = <<>>
       THEN [client EXCEPT !.lastRequest = "rejected"]
       ELSE [client EXCEPT !.isStreaming = TRUE, !.allVideos = <<>>,
                           !.filteredVideos = <<>>, !.source[s] = "open",
                           !.query[s] = input, !.current = s,
                           !.lastRequest = "accepted"]
  /\ UNCHANGED <<admitted, route, channelInput, pc, opts, channelId, channelInfo,
                 allVideos, nextPageToken, pageCount, pageResponse, videoCount, res,
                 promise, sinkLog, calls, failure, closePage, served, delays>>

\* Mutant of LoadVideosStream: the videos of the stream before are kept
LoadVideosStreamKeepsVideos(s, input) ==
  /\ client.source[s] = "none"
  /\ \A q \in Sessions : q < s => client.source[q] # "none"
  /\ client' =
       IF input = <<>>
       THEN [client EXCEPT !.lastRequest = "rejected"]
       ELSE IF client.isStreaming
       THEN [client EXCEPT !.lastRequest = "ignored"]
       ELSE [client EXCEPT !.isStreaming = TRUE, !.source[s] = "open",
                           !.query[s] = input, !.current = s,
                           !.lastRequest = "accepted"]
  /\ UNCHANGED <<admitted, route, channelInput, pc, opts, channelId, channelInfo,
                 allVideos, nextPageToken, pageCount, pageResponse, videoCount, res,
                 promise, sinkLog, calls, failure, closePage, served, delays>>

\* loadVideosStream(channelInput), called by the fetch button and the Enter
\* key with the trimmed text of the input box: s is the session the new
\* EventSource will be served by
LoadVideosStream(s, input) ==
  /\ client.source[s] = "none"
  /\ \A q \in Sessions : q < s => client.source[q] # "none"
  /\ client' =
       IF input = <<>>
       THEN [client EXCEPT !.lastRequest = "rejected"]
       ELSE IF client.isStreaming
       THEN [client EXCEPT !.lastRequest = "ignored"]
       ELSE [client EXCEPT !.isStreaming = TRUE, !.allVideos = <<>>,
                           !.filteredVideos = <<>>, !.source[s] = "open",
                           !.query[s] = input, !.current = s,
                           !.lastRequest = "accepted"]
  /\ UNCHANGED <<admitted, route, channelInput, pc, opts, channelId, channelInfo,
                 allVideos, nextPageToken, pageCount, pageResponse, videoCount, res,
                 promise, sinkLog, calls, failure, closePage, served, delays>>

\* eventSource.onmessage for the next event the stream route wrote on s:
\* the switch on data.type
OnMessage(s) ==
  /\ client.source[s] = "open"
  /\ client.read[s] < Len(res[s].events)
  /\ LET data == res[s].events[client.read[s] + 1]
     IN client' =
          IF data.type = "video"
          THEN [client EXCEPT !.read[s] = @ + 1,
                              !.allVideos = Append(@, data.video),
                              !.filteredVideos = Append(@, data.video)]
          ELSE IF data.type \in {"complete", "error"}
          THEN [client EXCEPT !.read[s] = @ + 1, !.source[s] = "closed",
                              !.isStreaming = FALSE]
          ELSE [client EXCEPT !.read[s] = @ + 1]
  /\ UNCHANGED <<admitted, route, channelInput, pc, opts, channelId, channelInfo,
                 allVideos, nextPageToken, pageCount, pageResponse, videoCount, res,
                 promise, sinkLog, calls, failure, closePage, served, delays>>

\* eventSource.onerror: the connection is lost, or the server answered
\* with an error status
OnTransportError(s) ==
  /\ client.source[s] = "open"
  /\ client' = [client EXCEPT !.source[s] = "closed", !.isStreaming = FALSE]
  /\ UNCHANGED <<admitted, route, channelInput, pc, opts, channelId, channelInfo,
                 allVideos, nextPageToken, pageCount, pageResponse, videoCount, res,
                 promise, sinkLog, calls, failure, closePage, served, delays>>

\* The texts of the channel input box, trimmed
ClientInputs == {<<>>, CANONICAL_ID}

\* The page has the stream of s open and has read all the route wrote on
\* it.  The route never looks at the page and the page sees the events in
\* the order written, so the steps of the route are taken at these points
\* only: every other interleaving gives the page the same sequence
Attended(s) == client.source[s] = "open" /\ client.read[s] = Len(res[s].events)

\* The request of an EventSource reaches the stream route
RequestArrives(s) ==
  /\ Attended(s)
  /\ GetStream(s, StrInput(client.query[s]))

\* The page and the server behind it: the channel exists, every page is
\* full, a detail batch answers all ids, any search or detail call may fail
ClientInit == InitWith(Sessions, [s \in Sessions |-> Undefined])

ClientNext ==
  \/ \E s \in Sessions : \E input \in ClientInputs : LoadVideosStream(s, input)
  \/ \E term \in SearchTerms : FilterVideos(term)
  \/ \E s \in Sessions :
       \/ OnMessage(s)
       \/ OnTransportError(s)
       \/ RequestArrives(s)
       \/ Attended(s) /\ StreamChannelInfoSettles(s, [kind |-> "found"])
       \/ \E answer \in ConcurrentSearchAnswers(pageCount[s]) :
            Attended(s) /\ StreamSearchSettles(s, answer)
       \/ \E answer \in ConcurrentDetailAnswers(VideoIds(pageResponse[s].items)) :
            Attended(s) /\ StreamDetailsSettle(s, answer)
       \/ Attended(s) /\ StreamDelayElapses(s)

SpecClient == ClientInit /\ [][ClientNext]_vars

\* ------------------------------------------ claims about the browser client

\* C37: the page has at most one EventSource open, and isStreaming is true
\* exactly while it has one: it is false again once the stream was closed
\* on a complete event, an error event or a transport error.  A fetch
\* request is ignored only while isStreaming is true and then changes
\* nothing of the page, and a request is accepted only while no stream is
\* open.
C37_OneStreamAtATime ==
  [][/\ Cardinality(OpenSources') <= 1
     /\ client'.isStreaming <=> OpenSources' # {}
     /\ (client'.lastRequest = "ignored" /\ client.lastRequest # "ignored") =>
          /\ client.isStreaming
          /\ client' = [client EXCEPT !.lastRequest = "ignored"]
     /\ client'.current # client.current =>
          /\ ~client.isStreaming
          /\ OpenSources = {}
          /\ OpenSources' = {client'.current}]_vars

\* The page opened a second stream after it closed the first on its
\* complete event
C37_Witness ==
  /\ client.source[1] = "closed"
  /\ client.read[1] >= 1
  /\ res[1].events[client.read[1]].type = "complete"
  /\ client.source[2] = "open"
  /\ client.isStreaming

\* a is b with some of its elements left out
RECURSIVE IsSubsequence(_, _)
IsSubsequence(a, b) ==
  IF a = <<>> THEN TRUE
  ELSE IF b = <<>> THEN FALSE
  ELSE IF Head(a) = Head(b) THEN IsSubsequence(Tail(a), Tail(b))
  ELSE IsSubsequence(a, Tail(b))

\* The videos of the video events the page has read on the stream of s, in
\* the order read
VideosRead(s) ==
  LET got == SelectSeq(SubSeq(res[s].events, 1, client.read[s]), LAMBDA e : e.type = "video")
  IN [i \in 1..Len(got) |-> got[i].video]
\* The page has read the complete event of the stream of s
CompleteRead(s) ==
  /\ client.read[s] >= 1
  /\ res[s].events[client.read[s]].type = "complete"

\* C38: filteredVideos is a subsequence of allVideos, whatever the stream
\* events and search texts so far; allVideos holds the videos of the video
\* events read on the current stream in the order read, and once the
\* complete event is read its length is the event's totalVideos.
C38_ClientVideoLists ==
  /\ IsSubsequence(client.filteredVideos, client.allVideos)
  /\ \A s \in Sessions :
       client.current = s =>
         /\ client.allVideos = VideosRead(s)
         /\ CompleteRead(s) =>
              Len(client.allVideos) = res[s].events[client.read[s]].totalVideos

\* The page read the complete event of its second stream, of two videos,
\* and shows one of them after a search
C38_Witness ==
  /\ client.current = 2
  /\ CompleteRead(2)
  /\ Len(client.allVideos) = 2
  /\ Len(client.filteredVideos) = 1
  /\ Len(VideosRead(1)) >= 1

\* ----------------------------------------------- the stream route alone

\* The requests of GET /stream only
SpecStream == Init /\ [][StreamNext]_vars

====
